---------------------------- MODULE Spec2Model ----------------------------
(***************************************************************************)
(* A model of src/src/core/data_storage.py (class DataStorage): three      *)
(* storage instances, one per backend (memory, sqlite, file), driven by    *)
(* one caller.  The caller passes the same arguments to the three          *)
(* instances, as examples/data_storage_example.py does, so that the        *)
(* answers of the backends can be compared call by call.                   *)
(*                                                                         *)
(* pandas, sqlite3 and the CSV reader are modelled by what the code relies *)
(* on: row labels versus row positions, missing values, text rendering,    *)
(* column affinity, type inference of read_csv, LIKE versus regex search.  *)
(***************************************************************************)
EXTENDS Integers, Sequences, FiniteSets, TLC

VARIABLES
    mem,      \* the memory instance: self.data, self.metadata, self.indexes
    sql,      \* the sqlite instance: self.conn and the database behind it
    fil,      \* the file instance: the files under data/processed
    src,      \* the caller's DataFrame object, the one it passed to store_data
    stored,   \* history: per backend and name, the last successful store
    pc,       \* the caller's position: "idle" or "returned"
    call,     \* the operation the caller invoked last, with its arguments
    result    \* what the three instances returned to that call

vars == <<mem, sql, fil, src, stored, pc, call, result>>

----------------------------------------------------------------------------
(* Bounds of the model *)

\* most rows of a table the caller builds
MaxRows == 2

\* most entries of a filter map
MaxFilter == 2

----------------------------------------------------------------------------
(* Cell values: a number, a text (a sequence of characters) or missing.   *)
(* One record shape for the three, so that any two cells compare.         *)

NaN == [t |-> "nan", n |-> 0, s |-> <<>>]

Num(k) == [t |-> "num", n |-> k, s |-> <<>>]

Str(cs) == [t |-> "str", n |-> 0, s |-> cs]

Range(q) == {q[i] : i \in DOMAIN q}

SeqSum(q) == LET RECURSIVE go(_)
                 go(i) == IF i > Len(q) THEN 0 ELSE q[i] + go(i + 1)
             IN go(1)

\* the subsequence of q at the positions of q that satisfy Keep(i)
FilterIdx(q, Keep(_)) ==
    LET RECURSIVE go(_)
        go(i) == IF i > Len(q) THEN <<>>
                 ELSE (IF Keep(i) THEN <<q[i]>> ELSE <<>>) \o go(i + 1)
    IN go(1)

\* concatenation of the sequences F(1), ..., F(n)
Flatten(n, F(_)) ==
    LET RECURSIVE go(_)
        go(i) == IF i > n THEN <<>> ELSE F(i) \o go(i + 1)
    IN go(1)

----------------------------------------------------------------------------
(* Text *)

DigitChars == <<"0", "1", "2", "3", "4", "5", "6", "7", "8", "9">>

IsDigit(c) == \E d \in 1..10 : DigitChars[d] = c

DigitVal(c) == (CHOOSE d \in 1..10 : DigitChars[d] = c) - 1

\* str(k) of a natural number
Digits(k) ==
    LET RECURSIVE go(_)
        go(m) == IF m < 10 THEN <<DigitChars[m + 1]>>
                 ELSE go(m \div 10) \o <<DigitChars[(m % 10) + 1]>>
    IN go(k)

AllDigits(cs) == Len(cs) > 0 /\ \A i \in DOMAIN cs : IsDigit(cs[i])

ParseDigits(cs) ==
    LET RECURSIVE go(_)
        go(i) == IF i = 0 THEN 0 ELSE 10 * go(i - 1) + DigitVal(cs[i])
    IN go(Len(cs))

\* str.lower() on the letters of the model's alphabet
Lower(c) == IF c = "A" THEN "a" ELSE IF c = "N" THEN "n" ELSE c

LowerText(cs) == [i \in DOMAIN cs |-> Lower(cs[i])]

\* does pat occur in text at offset i (1-based), characters compared by Same
OccursAt(text, pat, i, Same(_, _)) ==
    /\ i + Len(pat) - 1 <= Len(text)
    /\ \A j \in 1..Len(pat) : Same(text[i + j - 1], pat[j])

Occurs(text, pat, Same(_, _)) ==
    \E i \in 1..(Len(text) + 1) : OccursAt(text, pat, i, Same)

\* the literal, case-sensitive substring test
SameChar(c, p) == c = p

IsSubstring(text, pat) == Occurs(text, pat, SameChar)

----------------------------------------------------------------------------
(* pandas.DataFrame: row labels (the index), column names, and the rows,   *)
(* each row a tuple of cells in column order.  Row POSITIONS are 0..n-1;   *)
(* row LABELS are whatever the index holds.                                *)

Frame(index, columns, rows) == [index |-> index, columns |-> columns, rows |-> rows]

\* pd.DataFrame(): no columns, no rows
EmptyFrame == Frame(<<>>, <<>>, <<>>)

NRows(df) == Len(df.rows)

\* RangeIndex(n): labels 0..n-1
RangeIndex(n) == [i \in 1..n |-> i - 1]

HasCol(df, c) == \E j \in DOMAIN df.columns : df.columns[j] = c

ColPos(df, c) == CHOOSE j \in DOMAIN df.columns : df.columns[j] = c

\* df[c] as the sequence of its cells, in row order
ColValues(df, c) == [i \in DOMAIN df.rows |-> df.rows[i][ColPos(df, c)]]

\* the dtype pandas gives a column: int64, float64 (numbers with missing
\* values, or only missing values) or object (any text, or no rows)
DtypeOf(cells) ==
    IF Len(cells) = 0 \/ \E i \in DOMAIN cells : cells[i].t = "str" THEN "object"
    ELSE IF \E i \in DOMAIN cells : cells[i].t = "nan" THEN "float64"
    ELSE "int64"

Dtype(df, c) == DtypeOf(ColValues(df, c))

\* str(v) as Series.astype(str) and to_csv render a cell of a column of
\* dtype dt; a missing value renders as "nan"
RenderStr(dt, v) ==
    IF v.t = "nan" THEN <<"n", "a", "n">>
    ELSE IF v.t = "str" THEN v.s
    ELSE IF dt = "float64" THEN Digits(v.n) \o <<".", "0">>
    ELSE Digits(v.n)

\* df.reset_index(drop=True)
ResetIndex(df) == Frame(RangeIndex(NRows(df)), df.columns, df.rows)

\* df[mask]: the rows at the positions (1-based here) that satisfy Keep
BoolIndex(df, Keep(_)) ==
    Frame(FilterIdx(df.index, Keep), df.columns, FilterIdx(df.rows, Keep))

\* df.loc[list(labels)]: label-based selection.  A label that is not in the
\* index raises KeyError (ok = FALSE); a label held by several rows selects
\* all of them.  list(set) of small integers iterates in ascending order.
LocOk(df, labels) == labels \subseteq Range(df.index)

Loc(df, labels) ==
    LET top == IF labels = {} THEN 0 ELSE (CHOOSE m \in labels : \A l \in labels : l <= m) + 1
        pick(l) == IF (l - 1) \in labels
                   THEN FilterIdx(RangeIndex(NRows(df)), LAMBDA i : df.index[i] = l - 1)
                   ELSE <<>>
        pos == Flatten(top, pick)
    IN Frame([k \in DOMAIN pos |-> df.index[pos[k] + 1]], df.columns,
             [k \in DOMAIN pos |-> df.rows[pos[k] + 1]])

\* the entry of self.data had line 96 stored the caller's object itself
DfNoCopy(df) == [present |-> TRUE, ref |-> "src", df |-> df]

\* df.copy(): a new object holding the same rows
DfCopy(df) == [present |-> TRUE, ref |-> "own", df |-> df]

NoData == [present |-> FALSE, ref |-> "own", df |-> EmptyFrame]

\* the DataFrame an entry of self.data denotes: an object of its own, or
\* the caller's object s
Deref(entry, s) == IF entry.ref = "src" THEN s ELSE entry.df

----------------------------------------------------------------------------
(* Filter maps.  A key is a bare column name (op "eq") or                  *)
(* "<column>__<operator>"; the value is kept as a sequence of cells: one   *)
(* for eq, gt, lt and contains, the two bounds for between, the list for   *)
(* in.  Ordered comparisons are applied to numbers only.                   *)

Entry(col, op, vals) == [col |-> col, op |-> op, vals |-> vals]

\* isinstance checks of the operator branches (lines 362-368)
WellFormed(e) ==
    CASE e.op = "between" -> Len(e.vals) = 2
      [] e.op = "contains" -> Len(e.vals) = 1 /\ e.vals[1].t = "str"
      [] e.op \in {"eq", "gt", "lt"} -> Len(e.vals) = 1
      [] e.op = "in" -> TRUE
      [] OTHER -> FALSE

\* re.search(pat, text) for patterns made of literals and ".", which
\* matches any character
SameRegex(c, p) == p = "." \/ c = p

RegexSearch(text, pat) == Occurs(text, pat, SameRegex)

\* Series.str.contains(pat, na=False): pat is a regular expression
StrContains(text, pat) == RegexSearch(text, pat)

\* one cell v of a column of dtype dt against one filter entry: the element
\* of the boolean mask that lines 356-375 build
PdMatch(dt, v, e) ==
    CASE e.op = "eq" -> v.t # "nan" /\ v = e.vals[1]
      [] e.op = "gt" -> v.t = "num" /\ e.vals[1].t = "num" /\ v.n > e.vals[1].n
      [] e.op = "lt" -> v.t = "num" /\ e.vals[1].t = "num" /\ v.n < e.vals[1].n
      [] e.op = "between" ->
            /\ v.t = "num" /\ e.vals[1].t = "num" /\ e.vals[2].t = "num"
            /\ v.n >= e.vals[1].n /\ v.n <= e.vals[2].n
      [] e.op = "in" -> v \in Range(e.vals)
      [] e.op = "contains" -> StrContains(RenderStr(dt, v), e.vals[1].s)
      [] OTHER -> TRUE

\* the entries of a filter map that the memory and file code applies to df:
\* a known column and a recognised, well-formed operator
Applies(df, e) == HasCol(df, e.col) /\ WellFormed(e)

\* positions (1-based) of the rows of df that entry e keeps
PdMask(df, e, i) == PdMatch(Dtype(df, e.col), df.rows[i][ColPos(df, e.col)], e)

----------------------------------------------------------------------------
(* Python dicts as association lists: insertion order, one entry per key   *)

DictHas(d, k) == \E i \in DOMAIN d : d[i].k = k

DictGet(d, k) == d[CHOOSE i \in DOMAIN d : d[i].k = k].v

DictPut(d, k, v) ==
    IF DictHas(d, k)
    THEN [i \in DOMAIN d |-> IF d[i].k = k THEN [k |-> k, v |-> v] ELSE d[i]]
    ELSE Append(d, [k |-> k, v |-> v])

----------------------------------------------------------------------------
(* Ordering of cells, as sorted() of a group key and ORDER BY use it:     *)
(* missing first, then numbers, then text in code-point order.            *)

AsciiOrder == <<".", "0", "1", "2", "3", "4", "5", "6", "7", "8", "9", "A", "N", "_", "a", "n">>

CharCode(c) == CHOOSE i \in DOMAIN AsciiOrder : AsciiOrder[i] = c

TextLess(a, b) ==
    LET RECURSIVE go(_)
        go(i) == IF i > Len(b) THEN FALSE
                 ELSE IF i > Len(a) THEN TRUE
                 ELSE IF a[i] = b[i] THEN go(i + 1)
                 ELSE CharCode(a[i]) < CharCode(b[i])
    IN go(1)

TypeRank(v) == IF v.t = "nan" THEN 0 ELSE IF v.t = "num" THEN 1 ELSE 2

ValLess(a, b) ==
    IF TypeRank(a) # TypeRank(b) THEN TypeRank(a) < TypeRank(b)
    ELSE IF a.t = "num" THEN a.n < b.n
    ELSE IF a.t = "str" THEN TextLess(a.s, b.s)
    ELSE FALSE

\* tuples of cells, compared lexicographically
KeyLess(a, b) ==
    LET RECURSIVE go(_)
        go(i) == IF i > Len(a) THEN FALSE
                 ELSE IF a[i] = b[i] THEN go(i + 1)
                 ELSE ValLess(a[i], b[i])
    IN go(1)

\* the keys of the set S in ascending order
SortKeys(S) ==
    LET RECURSIVE go(_)
        go(R) == IF R = {} THEN <<>>
                 ELSE LET m == CHOOSE x \in R : \A y \in R \ {x} : KeyLess(x, y)
                      IN <<m>> \o go(R \ {m})
    IN go(S)

----------------------------------------------------------------------------
(* The universe of the model *)

\* dataset names; "metadata" is also the name of the sqlite backend's
\* bookkeeping table (line 48)
Names == {"d1", "d2", "metadata"}

\* the columns of the caller's tables, in order
TableCols == <<"Category", "Amount">>

\* column_types as DataTypeDetector gives them: column -> type, "none" for
\* a column the map does not mention.  Only the 'type' field is read by
\* DataStorage (lines 215, 293).
CtFull == [c \in {"Category", "Amount"} |-> IF c = "Amount" THEN "number" ELSE "string"]

CtDate == [c \in {"Category", "Amount"} |-> IF c = "Amount" THEN "date" ELSE "none"]

CtNone == [c \in {"Category", "Amount"} |-> "none"]

TypeOf(ct, c) == IF c \in DOMAIN ct /\ ct[c] # "none" THEN ct[c] ELSE "unknown"

\* json.dumps(column_types) / json.loads: the declared columns with their
\* type, as a flat token list
JsonDumps(ct) ==
    Flatten(Len(TableCols),
            LAMBDA j : IF ct[TableCols[j]] = "none" THEN <<>>
                       ELSE <<TableCols[j], ct[TableCols[j]]>>)

JsonLoads(js) ==
    [c \in {"Category", "Amount"} |->
        IF \E i \in DOMAIN js : i % 2 = 1 /\ js[i] = c
        THEN js[(CHOOSE i \in DOMAIN js : i % 2 = 1 /\ js[i] = c) + 1]
        ELSE "none"]

\* the metadata record of a dataset (lines 99-104); the clock is one instant
Meta(ct, rows, cols) ==
    [present |-> TRUE, column_types |-> ct, created_at |-> "now",
     row_count |-> rows, column_count |-> cols]

NoMeta == [present |-> FALSE, column_types |-> CtNone, created_at |-> "",
           row_count |-> 0, column_count |-> 0]

----------------------------------------------------------------------------
(* Memory backend *)

\* self.indexes[name] as store_data initialises it (lines 107-112)
EmptyIndexes ==
    [present |-> TRUE, date_index |-> <<>>, amount_index |-> <<>>,
     category_index |-> <<>>, text_index |-> <<>>]

NoIndexes ==
    [present |-> FALSE, date_index |-> <<>>, amount_index |-> <<>>,
     category_index |-> <<>>, text_index |-> <<>>]

MemInit ==
    [data |-> [n \in Names |-> NoData],
     metadata |-> [n \in Names |-> NoMeta],
     indexes |-> [n \in Names |-> NoIndexes]]

\* _store_in_memory
StoreInMemory(m, name, df, ct) ==
    [st |-> [data |-> [m.data EXCEPT ![name] = DfCopy(df)],
             metadata |-> [m.metadata EXCEPT ![name] = Meta(ct, NRows(df), Len(df.columns))],
             indexes |-> [m.indexes EXCEPT ![name] = EmptyIndexes]],
     ok |-> TRUE]

\* the labels of the rows of df that entry e keeps: set(df[mask].index)
MaskLabels(df, e) == {df.index[i] : i \in {k \in DOMAIN df.rows : PdMask(df, e, k)}}

\* result_indices had the loop not skipped entries of unknown columns: such
\* an entry would select no row
ResultIndicesNoSkip(df, filters) ==
    {p \in 0..(NRows(df) - 1) :
        \A e \in filters : WellFormed(e) => (HasCol(df, e.col) /\ p \in MaskLabels(df, e))}

\* result_indices after the loop of lines 346-375: row POSITIONS to start
\* with, intersected with row LABELS for every entry that applies
ResultIndices(df, filters) ==
    {p \in 0..(NRows(df) - 1) :
        \A e \in filters : Applies(df, e) => p \in MaskLabels(df, e)}

\* _query_memory; s is the caller's object
QueryMemory(m, s, name, filters) ==
    IF ~m.data[name].present THEN EmptyFrame
    ELSE LET df == Deref(m.data[name], s)
             ri == ResultIndices(df, filters)
         IN IF LocOk(df, ri) THEN ResetIndex(Loc(df, ri)) ELSE EmptyFrame

----------------------------------------------------------------------------
(* Memory backend: indexes *)

FoldLeft(Op(_, _), acc, q) ==
    LET RECURSIVE go(_, _)
        go(a, i) == IF i > Len(q) THEN a ELSE go(Op(a, q[i]), i + 1)
    IN go(acc, 1)

\* df[column].dropna(): the non-missing cells with their row labels
DropNa(df, c) ==
    LET cells == ColValues(df, c)
        keep == FilterIdx(RangeIndex(NRows(df)), LAMBDA i : cells[i].t # "nan")
    IN [k \in DOMAIN keep |-> [idx |-> df.index[keep[k] + 1], v |-> cells[keep[k] + 1]]]

\* the second argument of np.linspace at line 231: the number of bin EDGES
LinspaceNum == 20

\* np.linspace(lo, hi, LinspaceNum)[i], times (LinspaceNum - 1), for i = 0, 1, ...
EdgeScaled(lo, hi, i) == lo * (LinspaceNum - 1) + i * (hi - lo)

\* f"{edge:.2f}" of edge i, as hundredths, rounded to nearest
EdgeCents(lo, hi, i) ==
    (2 * 100 * EdgeScaled(lo, hi, i) + (LinspaceNum - 1)) \div (2 * (LinspaceNum - 1))

\* the dict key f"{bin_min:.2f}-{bin_max:.2f}" of bin i
BinKey(lo, hi, i) == <<EdgeCents(lo, hi, i), EdgeCents(lo, hi, i + 1)>>

\* (amount_values >= bin_min) & (amount_values < bin_max) for bin i
InBin(lo, hi, i, x) ==
    /\ x * (LinspaceNum - 1) >= EdgeScaled(lo, hi, i)
    /\ x * (LinspaceNum - 1) < EdgeScaled(lo, hi, i + 1)

\* binned_data of lines 229-237, for a non-empty sequence of numbers
BinnedData(vals) ==
    LET nums == {vals[k].v.n : k \in DOMAIN vals}
        lo == CHOOSE x \in nums : \A y \in nums : x <= y
        hi == CHOOSE x \in nums : \A y \in nums : x >= y
        rowsOf(i) == LET hit == FilterIdx(vals, LAMBDA k : InBin(lo, hi, i, vals[k].v.n))
                     IN [k \in DOMAIN hit |-> hit[k].idx]
    IN FoldLeft(LAMBDA d, i : DictPut(d, BinKey(lo, hi, i - 1), rowsOf(i - 1)),
                <<>>, [i \in 1..(LinspaceNum - 1) |-> i])

\* {str(date): idx ...} of lines 221-223: a later row replaces an earlier one
DateIndex(dt, vals) ==
    FoldLeft(LAMBDA d, x : DictPut(d, RenderStr(dt, x.v), x.idx), <<>>, vals)

\* string_values.unique(), in order of first appearance
Unique(vals) ==
    FoldLeft(LAMBDA u, x : IF \E i \in DOMAIN u : u[i] = x.v THEN u ELSE Append(u, x.v),
             <<>>, vals)

\* the categorical index of lines 248-251
CategoryIndex(dt, vals) ==
    LET labelsOf(val) == LET hit == FilterIdx(vals, LAMBDA k : vals[k].v = val)
                         IN [k \in DOMAIN hit |-> hit[k].idx]
    IN FoldLeft(LAMBDA d, val : DictPut(d, RenderStr(dt, val), labelsOf(val)),
                <<>>, Unique(vals))

\* str(text).lower().split(): the model's texts hold no white space
Words(text) == IF Len(text) = 0 THEN <<>> ELSE <<LowerText(text)>>

\* the inverted index of lines 254-260
TextIndex(dt, vals) ==
    FoldLeft(LAMBDA d, x :
                FoldLeft(LAMBDA d2, w :
                            DictPut(d2, w, (IF DictHas(d2, w) THEN DictGet(d2, w) ELSE <<>>)
                                            \o <<x.idx>>),
                         d, Words(RenderStr(dt, x.v))),
             <<>>, vals)

\* one pass of the loop of lines 208-262 for one column; acc is
\* [ix: the indexes of the dataset, raised: an exception was thrown]
IndexColumn(df, ct, acc, column) ==
    IF acc.raised \/ ~HasCol(df, column) THEN acc
    ELSE LET vals == DropNa(df, column)
             dt == Dtype(df, column)
             ty == TypeOf(ct, column)
         IN CASE ty = "date" ->
                   [acc EXCEPT !.ix.date_index = DictPut(@, column, DateIndex(dt, vals))]
              [] ty = "number" ->
                   IF Len(vals) = 0 THEN acc
                   ELSE IF \E k \in DOMAIN vals : vals[k].v.t = "str"
                        THEN [acc EXCEPT !.raised = TRUE]
                        ELSE [acc EXCEPT !.ix.amount_index = DictPut(@, column, BinnedData(vals))]
              [] ty = "string" ->
                   IF 2 * Len(Unique(vals)) < Len(vals)
                   THEN [acc EXCEPT !.ix.category_index = DictPut(@, column, CategoryIndex(dt, vals))]
                   ELSE [acc EXCEPT !.ix.text_index = DictPut(@, column, TextIndex(dt, vals))]
              [] OTHER -> acc

\* _create_memory_indexes; s is the caller's object
CreateMemoryIndexes(m, s, name, columns) ==
    IF ~m.data[name].present \/ ~m.metadata[name].present
    THEN [st |-> m, ok |-> FALSE]
    ELSE LET df == Deref(m.data[name], s)
             ct == m.metadata[name].column_types
             out == FoldLeft(LAMBDA a, c : IndexColumn(df, ct, a, c),
                             [ix |-> m.indexes[name], raised |-> FALSE], columns)
         IN [st |-> [m EXCEPT !.indexes[name] = out.ix], ok |-> ~out.raised]

----------------------------------------------------------------------------
(* Aggregation with pandas: df.groupby(group_by).agg(measures).reset_index() *)
(* measures is a dict column -> function name.  Measures are applied to    *)
(* numeric columns.                                                        *)

NumsOf(cells) ==
    LET keep == FilterIdx(cells, LAMBDA i : cells[i].t = "num")
    IN [k \in DOMAIN keep |-> keep[k].n]

SeqMin(q) == CHOOSE x \in Range(q) : \A y \in Range(q) : x <= y

SeqMax(q) == CHOOSE x \in Range(q) : \A y \in Range(q) : x >= y

\* a pandas reduction over the cells of one group: missing values are
\* skipped, and the sum of nothing is 0
PdAgg(func, cells) ==
    LET nums == NumsOf(cells)
    IN CASE func = "sum" -> Num(SeqSum(nums))
         [] func = "count" -> Num(Len(nums))
         [] func = "min" -> IF Len(nums) = 0 THEN NaN ELSE Num(SeqMin(nums))
         [] func = "max" -> IF Len(nums) = 0 THEN NaN ELSE Num(SeqMax(nums))
         [] OTHER -> NaN

\* the group key of row i (1-based): its cells in the group_by columns
GroupKey(df, group_by, i) == [j \in DOMAIN group_by |-> df.rows[i][ColPos(df, group_by[j])]]

HasNa(key) == \E j \in DOMAIN key : key[j].t = "nan"

\* lines 508-525 (and 581-598): the two column checks, then groupby.  A
\* group key with a missing value is dropped (dropna=True); groups come out
\* in ascending key order; groupby([]) raises.
PdAggregate(df, group_by, measures) ==
    IF \E j \in DOMAIN group_by : ~HasCol(df, group_by[j]) THEN EmptyFrame
    ELSE IF \E j \in DOMAIN measures : ~HasCol(df, measures[j].k) THEN EmptyFrame
    ELSE IF Len(group_by) = 0 THEN EmptyFrame
    ELSE LET keys == SortKeys({GroupKey(df, group_by, i) : i \in DOMAIN df.rows}
                              \ {k \in {GroupKey(df, group_by, i) : i \in DOMAIN df.rows} : HasNa(k)})
             cellsOf(key, c) ==
                 LET hit == FilterIdx(df.rows, LAMBDA i : GroupKey(df, group_by, i) = key)
                 IN [k \in DOMAIN hit |-> hit[k][ColPos(df, c)]]
             row(g) == keys[g] \o
                       [j \in DOMAIN measures |-> PdAgg(measures[j].v, cellsOf(keys[g], measures[j].k))]
         IN Frame(RangeIndex(Len(keys)),
                  group_by \o [j \in DOMAIN measures |-> measures[j].k],
                  [g \in DOMAIN keys |-> row(g)])

\* _aggregate_memory
AggregateMemory(m, s, name, group_by, measures) ==
    IF ~m.data[name].present THEN EmptyFrame
    ELSE PdAggregate(Deref(m.data[name], s), group_by, measures)

----------------------------------------------------------------------------
(* File backend: data/processed/<name>.csv and <name>_metadata.json        *)

\* one field of DataFrame.to_csv: a missing value is written as nothing
CsvField(dt, v) == IF v.t = "nan" THEN <<>> ELSE RenderStr(dt, v)

\* df.to_csv(path, index=False): a header line and one line per row; the
\* row labels are not written
ToCsv(df) ==
    [present |-> TRUE,
     header |-> df.columns,
     lines |-> [i \in DOMAIN df.rows |->
                  [j \in DOMAIN df.columns |-> CsvField(Dtype(df, df.columns[j]), df.rows[i][j])]]]

NoFile == [present |-> FALSE, header |-> <<>>, lines |-> <<>>]

\* the texts pd.read_csv reads as a missing value, over the model's alphabet
NaTexts == {<<>>, <<"N", "A">>, <<"N", "a", "N">>, <<"n", "a", "n">>}

\* a field that parses as a number: digits, or digits followed by ".0"
IsNumText(cs) ==
    \/ AllDigits(cs)
    \/ /\ Len(cs) >= 3 /\ cs[Len(cs)] = "0" /\ cs[Len(cs) - 1] = "."
       /\ AllDigits(SubSeq(cs, 1, Len(cs) - 2))

NumOfText(cs) == IF AllDigits(cs) THEN ParseDigits(cs) ELSE ParseDigits(SubSeq(cs, 1, Len(cs) - 2))

\* pd.read_csv(path): the type of a column is inferred from its fields: a
\* column whose present fields are all numbers is numeric, any other column
\* is text; the rows are labelled 0..n-1
ReadCsv(f) ==
    LET numeric(j) == \A i \in DOMAIN f.lines :
                          f.lines[i][j] \in NaTexts \/ IsNumText(f.lines[i][j])
        cell(i, j) == IF f.lines[i][j] \in NaTexts THEN NaN
                      ELSE IF numeric(j) THEN Num(NumOfText(f.lines[i][j]))
                      ELSE Str(f.lines[i][j])
    IN Frame(RangeIndex(Len(f.lines)), f.header,
             [i \in DOMAIN f.lines |-> [j \in DOMAIN f.header |-> cell(i, j)]])

\* json.dump(metadata) / json.load: column_types goes through JSON text
JsonMeta(meta) == [meta EXCEPT !.column_types = JsonLoads(JsonDumps(meta.column_types))]

FileInit == [csv |-> [n \in Names |-> NoFile], json |-> [n \in Names |-> NoMeta]]

\* _store_in_file
StoreInFile(f, name, df, ct) ==
    [st |-> [csv |-> [f.csv EXCEPT ![name] = ToCsv(df)],
             json |-> [f.json EXCEPT ![name] = JsonMeta(Meta(ct, NRows(df), Len(df.columns)))]],
     ok |-> TRUE]

\* _query_file: df = df[mask] once per entry that applies, in turn
QueryFile(f, name, filters) ==
    IF ~f.csv[name].present THEN EmptyFrame
    ELSE LET df == ReadCsv(f.csv[name])
         IN ResetIndex(BoolIndex(df,
                LAMBDA i : \A e \in filters : Applies(df, e) => PdMask(df, e, i)))

\* _aggregate_file
AggregateFile(f, name, group_by, measures) ==
    IF ~f.csv[name].present THEN EmptyFrame
    ELSE PdAggregate(ReadCsv(f.csv[name]), group_by, measures)

----------------------------------------------------------------------------
(* SQLite backend.  The database holds one table per dataset, named after  *)
(* it, and the two bookkeeping tables "metadata" and "indexes" (lines      *)
(* 47-66) in the same name space.  book says that the table "metadata" is  *)
(* still the bookkeeping table; once a dataset named "metadata" is stored, *)
(* to_sql has replaced it by the dataset's table.                          *)

BookCols == <<"dataset_name", "column_types", "created_at", "row_count", "column_count">>

\* the column type pandas.to_sql declares for a dtype, as SQLite affinity
Affinity(dt) == IF dt = "int64" THEN "INTEGER" ELSE IF dt = "float64" THEN "REAL" ELSE "TEXT"

\* the value SQLite stores, or compares with, under a column's affinity:
\* a number becomes text in a TEXT column, numeric text becomes a number
\* in a numeric column; NULL stays NULL
SqlCoerce(aff, v) ==
    IF v.t = "num" /\ aff = "TEXT" THEN Str(Digits(v.n))
    ELSE IF v.t = "str" /\ aff # "TEXT" /\ AllDigits(v.s) THEN Num(ParseDigits(v.s))
    ELSE v

NoTable == [present |-> FALSE, columns |-> <<>>, affinity |-> <<>>, rows |-> <<>>]

\* df.to_sql(name, conn, if_exists='replace', index=False): the row labels
\* are not written
ToSql(df) ==
    [present |-> TRUE,
     columns |-> df.columns,
     affinity |-> [j \in DOMAIN df.columns |-> Affinity(Dtype(df, df.columns[j]))],
     rows |-> [i \in DOMAIN df.rows |->
                 [j \in DOMAIN df.columns |->
                     SqlCoerce(Affinity(Dtype(df, df.columns[j])), df.rows[i][j])]]]

\* the bookkeeping table "metadata" read as a table
BookTable(db) ==
    [present |-> TRUE,
     columns |-> BookCols,
     affinity |-> <<"TEXT", "TEXT", "TEXT", "INTEGER", "INTEGER">>,
     rows |-> [i \in DOMAIN db.metadata |->
                 <<Str(<<db.metadata[i].dataset_name>>), Str(db.metadata[i].column_types),
                   Str(<<db.metadata[i].created_at>>), Num(db.metadata[i].row_count),
                   Num(db.metadata[i].column_count)>>]]

\* the table a FROM clause finds under a name
SqlTable(db, name) == IF name = "metadata" /\ db.book THEN BookTable(db) ELSE db.tables[name]

SqlInit ==
    [conn |-> TRUE, book |-> TRUE, tables |-> [n \in Names |-> NoTable],
     metadata |-> <<>>, indexes |-> <<>>, sqlidx |-> {}]

\* INSERT OR REPLACE INTO metadata: the row of the same dataset_name goes,
\* the new row is added at the end
UpsertMeta(rows, row) ==
    Append(FilterIdx(rows, LAMBDA i : rows[i].dataset_name # row.dataset_name), row)

\* _store_in_sqlite: to_sql, then the metadata row.  When the table
\* "metadata" is the caller's own table, the INSERT names columns it does
\* not have: the statement fails after the table was written.
StoreInSqlite(db, name, df, ct) ==
    IF ~db.conn THEN [st |-> db, ok |-> FALSE]
    ELSE LET book2 == db.book /\ name # "metadata"
             written == [db EXCEPT !.tables[name] = ToSql(df),
                                   !.sqlidx = {x \in @ : x[1] # name},
                                   !.book = book2,
                                   !.metadata = IF book2 THEN @ ELSE <<>>]
             row == [dataset_name |-> name, column_types |-> JsonDumps(ct),
                     created_at |-> "now", row_count |-> NRows(df),
                     column_count |-> Len(df.columns)]
         IN IF book2
            THEN [st |-> [written EXCEPT !.metadata = UpsertMeta(@, row)], ok |-> TRUE]
            ELSE [st |-> written, ok |-> FALSE]

SqlText(v) == IF v.t = "num" THEN Digits(v.n) ELSE v.s

\* x LIKE '%pat%': letters match without regard to case, "_" in pat matches
\* any character
SameLike(c, p) == p = "_" \/ Lower(c) = Lower(p)

LikeContains(text, pat) == Occurs(text, pat, SameLike)

\* one stored cell c of a column of affinity aff against the WHERE clause of
\* one filter entry (lines 402-421); a comparison with NULL is not true
SqlMatch(aff, c, e) ==
    /\ c.t # "nan"
    /\ CASE e.op = "eq" -> c = SqlCoerce(aff, e.vals[1])
         [] e.op = "gt" -> e.vals[1].t # "nan" /\ ValLess(SqlCoerce(aff, e.vals[1]), c)
         [] e.op = "lt" -> e.vals[1].t # "nan" /\ ValLess(c, SqlCoerce(aff, e.vals[1]))
         [] e.op = "between" ->
               /\ e.vals[1].t # "nan" /\ e.vals[2].t # "nan"
               /\ ~ValLess(c, SqlCoerce(aff, e.vals[1]))
               /\ ~ValLess(SqlCoerce(aff, e.vals[2]), c)
         [] e.op = "in" -> \E k \in DOMAIN e.vals : c = SqlCoerce(aff, e.vals[k])
         [] e.op = "contains" -> LikeContains(SqlText(c), e.vals[1].s)
         [] OTHER -> TRUE

\* the entries of a filter map that put a clause into the WHERE: every bare
\* key, and every well-formed operator key, whatever the column
HasClause(e) == WellFormed(e)

\* _query_sqlite: a missing table or a clause on a column the table lacks
\* makes the statement fail, and the handler returns pd.DataFrame()
QuerySqlite(db, name, filters) ==
    IF ~db.conn THEN EmptyFrame
    ELSE LET t == SqlTable(db, name)
             clauses == {e \in filters : HasClause(e)}
             col(c) == CHOOSE j \in DOMAIN t.columns : t.columns[j] = c
         IN IF ~t.present THEN EmptyFrame
            ELSE IF \E e \in clauses : ~\E j \in DOMAIN t.columns : t.columns[j] = e.col
                 THEN EmptyFrame
                 ELSE LET keep == FilterIdx(t.rows,
                                    LAMBDA i : \A e \in clauses :
                                        SqlMatch(t.affinity[col(e.col)], t.rows[i][col(e.col)], e))
                      IN Frame(RangeIndex(Len(keep)), t.columns, keep)


\* an SQL aggregate over the cells of one group: NULLs are skipped, and
\* SUM, MIN and MAX of nothing are NULL; an unknown function name maps to
\* SUM (line 554)
SqlAgg(func, cells) ==
    LET nums == NumsOf(cells)
    IN CASE func = "count" -> Num(Len(nums))
         [] func = "min" -> IF Len(nums) = 0 THEN NaN ELSE Num(SeqMin(nums))
         [] func = "max" -> IF Len(nums) = 0 THEN NaN ELSE Num(SeqMax(nums))
         [] OTHER -> IF Len(nums) = 0 THEN NaN ELSE Num(SeqSum(nums))

\* the result column f"{col}_{func}" of line 555
Alias(c, func) ==
    CASE c = "Amount" /\ func = "sum" -> "Amount_sum"
      [] c = "Amount" /\ func = "count" -> "Amount_count"
      [] c = "Amount" /\ func = "min" -> "Amount_min"
      [] c = "Amount" /\ func = "max" -> "Amount_max"
      [] c = "Category" /\ func = "sum" -> "Category_sum"
      [] c = "Category" /\ func = "count" -> "Category_count"
      [] c = "Category" /\ func = "min" -> "Category_min"
      [] c = "Category" /\ func = "max" -> "Category_max"
      [] OTHER -> "other"

\* _aggregate_sqlite: SELECT group columns, FUNC(col) AS col_func FROM name
\* GROUP BY group columns.  NULL is a group key like any other; the groups
\* come out in key order; an empty GROUP BY list is a syntax error.
AggregateSqlite(db, name, group_by, measures) ==
    IF ~db.conn THEN EmptyFrame
    ELSE LET t == SqlTable(db, name)
             has(c) == \E j \in DOMAIN t.columns : t.columns[j] = c
             col(c) == CHOOSE j \in DOMAIN t.columns : t.columns[j] = c
             keyOf(i) == [j \in DOMAIN group_by |-> t.rows[i][col(group_by[j])]]
         IN IF ~t.present \/ Len(group_by) = 0 THEN EmptyFrame
            ELSE IF \E j \in DOMAIN group_by : ~has(group_by[j]) THEN EmptyFrame
            ELSE IF \E j \in DOMAIN measures : ~has(measures[j].k) THEN EmptyFrame
            ELSE LET keys == SortKeys({keyOf(i) : i \in DOMAIN t.rows})
                     cellsOf(key, c) ==
                         LET hit == FilterIdx(t.rows, LAMBDA i : keyOf(i) = key)
                         IN [k \in DOMAIN hit |-> hit[k][col(c)]]
                     row(g) == keys[g] \o
                               [j \in DOMAIN measures |->
                                   SqlAgg(measures[j].v, cellsOf(keys[g], measures[j].k))]
                 IN Frame(RangeIndex(Len(keys)),
                          group_by \o [j \in DOMAIN measures |-> Alias(measures[j].k, measures[j].v)],
                          [g \in DOMAIN keys |-> row(g)])

\* one pass of the loop of lines 289-303: CREATE INDEX IF NOT EXISTS on the
\* dataset's table, then the row of the bookkeeping table "indexes"
SqlIndexColumn(name, ct, acc, column) ==
    IF acc.raised THEN acc
    ELSE LET t == SqlTable(acc.db, name)
         IN IF ~t.present \/ ~\E j \in DOMAIN t.columns : t.columns[j] = column
            THEN [acc EXCEPT !.raised = TRUE]
            ELSE [acc EXCEPT !.db.sqlidx = @ \cup {<<name, column>>},
                             !.db.indexes = DictPut(@, <<name, <<"idx", name, column>>, column>>,
                                                    TypeOf(ct, column))]

\* _create_sqlite_indexes
CreateSqliteIndexes(db, name, columns) ==
    IF ~db.conn \/ ~db.book THEN [st |-> db, ok |-> FALSE]
    ELSE IF ~\E i \in DOMAIN db.metadata : db.metadata[i].dataset_name = name
    THEN [st |-> db, ok |-> FALSE]
    ELSE LET row == db.metadata[CHOOSE i \in DOMAIN db.metadata : db.metadata[i].dataset_name = name]
             ct == JsonLoads(row.column_types)
             out == FoldLeft(LAMBDA a, c : SqlIndexColumn(name, ct, a, c),
                             [db |-> db, raised |-> FALSE], columns)
         IN [st |-> out.db, ok |-> ~out.raised]

----------------------------------------------------------------------------
(* get_metadata: a dict, given here by its key set and its values *)

EmptyMap ==
    [keys |-> {}, dataset_name |-> "", column_types |-> CtNone, created_at |-> "",
     row_count |-> 0, column_count |-> 0]

MetaKeys == {"column_types", "created_at", "row_count", "column_count"}

MetaMap(keys, name, meta) ==
    [keys |-> keys, dataset_name |-> name, column_types |-> meta.column_types,
     created_at |-> meta.created_at, row_count |-> meta.row_count,
     column_count |-> meta.column_count]

\* line 614
GetMetadataMemory(m, name) ==
    IF m.metadata[name].present THEN MetaMap(MetaKeys, "", m.metadata[name]) ELSE EmptyMap

\* lines 616-635: the SELECT fails when "metadata" is not the bookkeeping table
GetMetadataSqlite(db, name) ==
    IF ~db.conn \/ ~db.book THEN EmptyMap
    ELSE IF ~\E i \in DOMAIN db.metadata : db.metadata[i].dataset_name = name THEN EmptyMap
    ELSE LET row == db.metadata[CHOOSE i \in DOMAIN db.metadata : db.metadata[i].dataset_name = name]
         IN MetaMap(MetaKeys \cup {"dataset_name"}, row.dataset_name,
                    [row EXCEPT !.column_types = JsonLoads(row.column_types)])

\* lines 637-644
GetMetadataFile(f, name) ==
    IF f.json[name].present THEN MetaMap(MetaKeys, "", f.json[name]) ELSE EmptyMap

----------------------------------------------------------------------------
(* The caller and the operations of DataStorage *)

Backends == {"memory", "sqlite", "file"}

NoCall ==
    [op |-> "none", name |-> "", df |-> EmptyFrame, ct |-> CtNone, filters |-> {},
     group_by |-> <<>>, measures |-> <<>>, columns |-> <<>>]

NoResult == [memory |-> FALSE, sqlite |-> FALSE, file |-> FALSE]

NoStore == [present |-> FALSE, df |-> EmptyFrame, ct |-> CtNone]

\* the caller binds its variable to a new DataFrame: an entry of self.data
\* that is the old object keeps the old object
Rebind(m, s) ==
    [m EXCEPT !.data = [n \in Names |->
        IF m.data[n].ref = "src" THEN [present |-> TRUE, ref |-> "own", df |-> s]
        ELSE m.data[n]]]

Fresh ==
    /\ mem = MemInit
    /\ sql = SqlInit
    /\ fil = FileInit
    /\ src = EmptyFrame
    /\ stored = [b \in Backends |-> [n \in Names |-> NoStore]]
    /\ call = NoCall
    /\ result = NoResult

\* store_data(name, df, column_types) on the three instances (lines 70-88)
store_data(name, df, ct) ==
    LET m == StoreInMemory(Rebind(mem, src), name, df, ct)
        q == StoreInSqlite(sql, name, df, ct)
        f == StoreInFile(fil, name, df, ct)
        ok == [memory |-> m.ok, sqlite |-> q.ok, file |-> f.ok]
    IN /\ pc \in {"start", "idle"}
       /\ mem' = m.st
       /\ sql' = q.st
       /\ fil' = f.st
       /\ src' = df
       /\ stored' = [b \in Backends |->
                       IF ok[b] THEN [stored[b] EXCEPT ![name] = [present |-> TRUE, df |-> df, ct |-> ct]]
                       ELSE stored[b]]
       /\ call' = [NoCall EXCEPT !.op = "store_data", !.name = name, !.df = df, !.ct = ct]
       /\ result' = ok
       /\ pc' = "returned"

\* the caller changes its own DataFrame in place after a store:
\* df.drop(df.index[-1], inplace=True)
MutateSource ==
    /\ pc = "idle"
    /\ NRows(src) > 0
    /\ src' = Frame(SubSeq(src.index, 1, NRows(src) - 1), src.columns,
                    SubSeq(src.rows, 1, NRows(src) - 1))
    /\ UNCHANGED <<mem, sql, fil, stored, pc, call, result>>

\* query_by_criteria(name, filters) (lines 311-334)
query_by_criteria(name, filters) ==
    /\ pc = "idle"
    /\ call' = [NoCall EXCEPT !.op = "query_by_criteria", !.name = name, !.filters = filters]
    /\ result' = [memory |-> QueryMemory(mem, src, name, filters),
                  sqlite |-> QuerySqlite(sql, name, filters),
                  file |-> QueryFile(fil, name, filters)]
    /\ pc' = "returned"
    /\ UNCHANGED <<mem, sql, fil, src, stored>>

\* aggregate_data(name, group_by, measures) (lines 476-495)
aggregate_data(name, group_by, measures) ==
    /\ pc = "idle"
    /\ call' = [NoCall EXCEPT !.op = "aggregate_data", !.name = name,
                              !.group_by = group_by, !.measures = measures]
    /\ result' = [memory |-> AggregateMemory(mem, src, name, group_by, measures),
                  sqlite |-> AggregateSqlite(sql, name, group_by, measures),
                  file |-> AggregateFile(fil, name, group_by, measures)]
    /\ pc' = "returned"
    /\ UNCHANGED <<mem, sql, fil, src, stored>>

\* create_indexes(name, columns) (lines 179-194): the file backend has none
create_indexes(name, columns) ==
    LET m == CreateMemoryIndexes(mem, src, name, columns)
        q == CreateSqliteIndexes(sql, name, columns)
    IN /\ pc = "idle"
       /\ mem' = m.st
       /\ sql' = q.st
       /\ call' = [NoCall EXCEPT !.op = "create_indexes", !.name = name, !.columns = columns]
       /\ result' = [memory |-> m.ok, sqlite |-> q.ok, file |-> FALSE]
       /\ pc' = "returned"
       /\ UNCHANGED <<fil, src, stored>>

\* get_metadata(name) (lines 603-645)
get_metadata(name) ==
    /\ pc = "idle"
    /\ call' = [NoCall EXCEPT !.op = "get_metadata", !.name = name]
    /\ result' = [memory |-> GetMetadataMemory(mem, name),
                  sqlite |-> GetMetadataSqlite(sql, name),
                  file |-> GetMetadataFile(fil, name)]
    /\ pc' = "returned"
    /\ UNCHANGED <<mem, sql, fil, src, stored>>

\* the caller is done with the returned value
Return ==
    /\ pc = "returned"
    /\ pc' = "idle"
    /\ call' = NoCall
    /\ result' = NoResult
    /\ UNCHANGED <<mem, sql, fil, src, stored>>

----------------------------------------------------------------------------
(* Inputs *)

\* row labels of a table of n rows: 0..n-1 as pandas numbers them, 1..n as
\* after dropping the first row of a longer table, or one label for all rows
IndexOf(shape, n) ==
    [i \in 1..n |-> IF shape = "range" THEN i - 1 ELSE IF shape = "shift" THEN i ELSE 0]

TablesOf(RowSet, Shapes) ==
    UNION {{Frame(IndexOf(sh, n), TableCols, rows) : sh \in Shapes, rows \in [1..n -> RowSet]}
           : n \in 0..MaxRows}

\* the tables of the store/re-store runs
RowsA == {<<Str(<<"a">>), Num(1)>>}

\* the names the store/re-store runs store under
NamesA == {"d1", "d2"}

TablesA == TablesOf(RowsA, {"range", "shift"})

CtsA == {CtFull, CtNone}

FiltersA == {{}, {Entry("Amount", "gt", <<Num(1)>>)}}

\* (group_by, measures) arguments: a good pair, one with a group column and
\* one with a measure column that no table has
AggArgsA ==
    {[g |-> <<"Category">>, ms |-> <<[k |-> "Amount", v |-> "sum"]>>],
     [g |-> <<"Zed">>, ms |-> <<[k |-> "Amount", v |-> "sum"]>>],
     [g |-> <<"Category">>, ms |-> <<[k |-> "Zed", v |-> "sum"]>>]}

Init == Fresh /\ pc = "idle"

Next ==
    \/ \E name \in NamesA, df \in TablesA, ct \in CtsA : store_data(name, df, ct)
    \/ MutateSource
    \/ \E name \in Names, filters \in FiltersA : query_by_criteria(name, filters)
    \/ \E name \in Names, a \in AggArgsA : aggregate_data(name, a.g, a.ms)
    \/ \E name \in Names : get_metadata(name)
    \/ Return

Spec == Init /\ [][Next]_vars

----------------------------------------------------------------------------
(* Query runs: the caller stores one table under "d1", then queries it.   *)

CatQ == {NaN, Str(<<"a">>), Str(<<"A">>), Str(<<"1">>)}

AmtQ == {Num(1), Num(2)}

RowsQ == {<<c, a>> : c \in CatQ, a \in AmtQ}

TablesQ == TablesOf(RowsQ, {"range", "dup"})

\* filter entries: every operator, a known and an unknown column
EntriesQ ==
    {Entry("Category", "eq", <<Str(<<"a">>)>>),
     Entry("Zed", "eq", <<Num(1)>>),
     Entry("Amount", "gt", <<Num(1)>>),
     Entry("Amount", "lt", <<Num(2)>>),
     Entry("Amount", "between", <<Num(2), Num(2)>>),
     Entry("Category", "in", <<Str(<<"a">>), Str(<<"1">>)>>),
     Entry("Category", "contains", <<Str(<<"a">>)>>),
     Entry("Category", "contains", <<Str(<<".">>)>>),
     Entry("Zed", "contains", <<Str(<<"a">>)>>)}

\* a filter map has one value per key
IsFilterMap(F) == \A e1, e2 \in F : (e1.col = e2.col /\ e1.op = e2.op) => e1 = e2

FiltersQ == {F \in SUBSET EntriesQ : Cardinality(F) <= MaxFilter /\ IsFilterMap(F)}

InitQ == Fresh /\ pc = "start"

NextQ ==
    \/ \E df \in TablesQ : pc = "start" /\ store_data("d1", df, CtFull)
    \/ \E filters \in FiltersQ : query_by_criteria("d1", filters)
    \/ Return

SpecQ == InitQ /\ [][NextQ]_vars

----------------------------------------------------------------------------
(* Aggregation and index runs: the caller stores one table under "d1",    *)
(* then aggregates it and builds indexes on it.                           *)

CatG == {NaN, Str(<<"a">>), Str(<<"A">>)}

AmtG == {NaN, Num(1), Num(2)}

RowsG == {<<c, a>> : c \in CatG, a \in AmtG}

TablesG == TablesOf(RowsG, {"range", "shift"})

CtsG == {CtFull, CtDate}

AggArgsG ==
    {[g |-> <<"Category">>, ms |-> <<[k |-> "Amount", v |-> "sum"]>>],
     [g |-> <<"Category">>, ms |-> <<[k |-> "Amount", v |-> "count"]>>],
     [g |-> <<"Zed">>, ms |-> <<[k |-> "Amount", v |-> "sum"]>>]}

ColumnListsG == {<<"Amount">>, <<"Category", "Amount">>, <<"Zed">>}

InitG == Fresh /\ pc = "start"

NextG ==
    \/ \E df \in TablesG, ct \in CtsG : pc = "start" /\ store_data("d1", df, ct)
    \/ \E a \in AggArgsG : aggregate_data("d1", a.g, a.ms)
    \/ \E columns \in ColumnListsG : create_indexes("d1", columns)
    \/ Return

SpecG == InitG /\ [][NextG]_vars

----------------------------------------------------------------------------
(* Properties *)

\* the rows a backend holds under a name, as that backend reads them back
HeldFrame(b, name) ==
    CASE b = "memory" -> Deref(mem.data[name], src)
      [] b = "sqlite" -> LET t == SqlTable(sql, name)
                         IN Frame(RangeIndex(Len(t.rows)), t.columns, t.rows)
      [] b = "file" -> ReadCsv(fil.csv[name])

\* the answer of backend b to query_by_criteria(name, filters) in this state
Answer(b, name, filters) ==
    CASE b = "memory" -> QueryMemory(mem, src, name, filters)
      [] b = "sqlite" -> QuerySqlite(sql, name, filters)
      [] b = "file" -> QueryFile(fil, name, filters)

\* operation op has returned and the caller holds its result
Returned(op) == pc = "returned" /\ call.op = op

\* C1: round trip.  In every backend, a query with the empty filter map
\* returns exactly the rows of the table that store_data last accepted
\* under that name.
C1_RoundTrip ==
    (Returned("query_by_criteria") /\ call.filters = {}) =>
        \A b \in Backends :
            stored[b][call.name].present =>
                result[b].rows = stored[b][call.name].df.rows

\* C2: cross-backend equivalence.  For the same stored table and the same
\* filter map the three backends return the same rows.
C2_BackendsAgree ==
    Returned("query_by_criteria") =>
        /\ result.memory.rows = result.sqlite.rows
        /\ result.sqlite.rows = result.file.rows

\* C3: re-store overwrites.  After successful stores, the empty-filter query
\* returns the rows of the most recent store under the name, and
\* get_metadata reports that store's row_count, column_count and
\* column_types, in every backend.
C3_RestoreOverwrites ==
    /\ (Returned("query_by_criteria") /\ call.filters = {}) =>
          \A b \in Backends :
              stored[b][call.name].present =>
                  /\ NRows(result[b]) = NRows(stored[b][call.name].df)
                  /\ result[b].rows = stored[b][call.name].df.rows
    /\ Returned("get_metadata") =>
          \A b \in Backends :
              stored[b][call.name].present =>
                  /\ result[b].row_count = NRows(stored[b][call.name].df)
                  /\ result[b].column_count = Len(stored[b][call.name].df.columns)
                  /\ result[b].column_types = stored[b][call.name].ct

\* the answers of a backend that has just been handed table df under the
\* name, by a caller that leaves df alone
FreshAnswer(b, name, df, ct, filters) ==
    CASE b = "memory" -> QueryMemory(StoreInMemory(MemInit, name, df, ct).st, df, name, filters)
      [] b = "sqlite" -> QuerySqlite(StoreInSqlite(SqlInit, name, df, ct).st, name, filters)
      [] b = "file" -> QueryFile(StoreInFile(FileInit, name, df, ct).st, name, filters)

FreshAggregate(b, name, df, ct, group_by, measures) ==
    CASE b = "memory" ->
            AggregateMemory(StoreInMemory(MemInit, name, df, ct).st, df, name, group_by, measures)
      [] b = "sqlite" ->
            AggregateSqlite(StoreInSqlite(SqlInit, name, df, ct).st, name, group_by, measures)
      [] b = "file" ->
            AggregateFile(StoreInFile(FileInit, name, df, ct).st, name, group_by, measures)

\* C4: the backend holds its own copy.  Whatever the caller has done to its
\* source table since, query_by_criteria and aggregate_data answer from the
\* table as it was when store_data accepted it: they return what a backend
\* returns whose caller left that table alone.
C4_SourceMutationInvisible ==
    \A b \in Backends :
        LET st == stored[b][call.name]
        IN /\ (Returned("query_by_criteria") /\ st.present) =>
                 result[b] = FreshAnswer(b, call.name, st.df, st.ct, call.filters)
           /\ (Returned("aggregate_data") /\ st.present) =>
                 result[b] = FreshAggregate(b, call.name, st.df, st.ct,
                                            call.group_by, call.measures)

\* C4 witness: only "d1" was ever stored, with two rows; the caller has since
\* dropped rows of its table, and a query of "d1" still returns both rows
C4_Witness ==
    /\ Returned("query_by_criteria") /\ call.name = "d1" /\ call.filters = {}
    /\ stored.memory["d1"].present /\ ~stored.memory["d2"].present
    /\ NRows(stored.memory["d1"].df) = 2
    /\ NRows(src) < 2
    /\ NRows(result.memory) = 2 /\ NRows(result.sqlite) = 2 /\ NRows(result.file) = 2

\* C5: a missing dataset or column gives an empty value.  A query or an
\* aggregation of a name that was never stored returns no rows, get_metadata
\* of it returns the empty map, and an aggregation that names a column the
\* dataset lacks returns no rows.
C5_MissingGivesEmpty ==
    /\ (Returned("query_by_criteria") \/ Returned("aggregate_data")) =>
          \A b \in Backends : ~stored[b][call.name].present => NRows(result[b]) = 0
    /\ Returned("get_metadata") =>
          \A b \in Backends : ~stored[b][call.name].present => result[b] = EmptyMap
    /\ Returned("aggregate_data") =>
          \A b \in Backends :
              ((\E j \in DOMAIN call.group_by : ~HasCol(HeldFrame(b, call.name), call.group_by[j]))
               \/ (\E j \in DOMAIN call.measures : ~HasCol(HeldFrame(b, call.name), call.measures[j].k)))
              => NRows(result[b]) = 0

\* C6: filter entries are ANDed.  In every backend the rows a filter map
\* selects are exactly the held rows that each of its entries, queried
\* alone, selects (the intersection of the single-entry results).
C6_EntriesAreAnded ==
    Returned("query_by_criteria") =>
        \A b \in Backends :
            stored[b][call.name].present =>
                LET held == HeldFrame(b, call.name)
                    alone(e) == Range(Answer(b, call.name, {e}).rows)
                IN result[b].rows =
                       FilterIdx(held.rows,
                                 LAMBDA i : \A e \in call.filters : held.rows[i] \in alone(e))

\* C7: in the memory and file backends an entry on a column the dataset
\* lacks is ignored: the query returns what the same filter map without
\* that entry returns.
C7_UnknownColumnIgnored ==
    Returned("query_by_criteria") =>
        \A b \in {"memory", "file"} :
            \A e \in call.filters :
                ~HasCol(HeldFrame(b, call.name), e.col) =>
                    result[b] = Answer(b, call.name, call.filters \ {e})

\* C7 witness: a two-entry filter map, one entry on the unknown column
\* "Zed", whose other entry keeps some held rows and drops others
C7_Witness ==
    /\ Returned("query_by_criteria")
    /\ Cardinality(call.filters) = 2
    /\ \E e \in call.filters : e.col = "Zed"
    /\ \A b \in {"memory", "file"} :
          /\ NRows(result[b]) > 0
          /\ NRows(result[b]) < NRows(HeldFrame(b, call.name))

\* C8: "contains" is a literal, case-sensitive substring test.  For a filter
\* map of one entry col__contains = v, in every backend a held row whose
\* value in col is a text is returned exactly when that text contains v.
C8_ContainsIsLiteral ==
    Returned("query_by_criteria") =>
        \A e \in call.filters :
            (call.filters = {e} /\ e.op = "contains") =>
                \A b \in Backends :
                    LET held == HeldFrame(b, call.name)
                    IN HasCol(held, e.col) =>
                          \A i \in DOMAIN held.rows :
                              LET v == held.rows[i][ColPos(held, e.col)]
                              IN v.t = "str" =>
                                    ((held.rows[i] \in Range(result[b].rows))
                                        <=> IsSubstring(v.s, e.vals[1].s))

\* the brute-force total of the Amount cells of the held rows whose
\* Category is g
C9_Total(held, g) ==
    LET hit == FilterIdx(held.rows, LAMBDA i : held.rows[i][ColPos(held, "Category")] = g)
    IN SeqSum(NumsOf([k \in DOMAIN hit |-> hit[k][ColPos(held, "Amount")]]))

\* C9: grouping by Category and summing Amount gives, in every backend, one
\* result row per distinct Category value of the dataset, holding the total
\* of that group's Amount cells.
C9_GroupSums ==
    (/\ Returned("aggregate_data")
     /\ call.group_by = <<"Category">>
     /\ call.measures = <<[k |-> "Amount", v |-> "sum"]>>) =>
        \A b \in Backends :
            stored[b][call.name].present =>
                LET held == HeldFrame(b, call.name)
                    groups == {c \in Range(ColValues(held, "Category")) : c.t # "nan"}
                IN /\ NRows(result[b]) = Cardinality(groups)
                   /\ \A g \in groups :
                         \E i \in DOMAIN result[b].rows :
                             result[b].rows[i] = <<g, Num(C9_Total(held, g))>>

\* the number of bins the amount index is said to have
C10_Bins == 20

\* C10: after create_indexes on the memory backend for a column declared
\* "number" with a non-missing value, the amount index of the column has 20
\* equal-width bins that span [min, max], bin i listing the rows whose
\* value v satisfies lo_i <= v < hi_i.
C10_TwentyBins ==
    (/\ Returned("create_indexes")
     /\ \E j \in DOMAIN call.columns : call.columns[j] = "Amount"
     /\ mem.data[call.name].present
     /\ TypeOf(mem.metadata[call.name].column_types, "Amount") = "number") =>
        LET vals == DropNa(Deref(mem.data[call.name], src), "Amount")
            nums == {vals[k].v.n : k \in DOMAIN vals}
            lo == CHOOSE x \in nums : \A y \in nums : x <= y
            hi == CHOOSE x \in nums : \A y \in nums : x >= y
            ix == mem.indexes[call.name].amount_index
            edge(i) == C10_Bins * lo + i * (hi - lo)
        IN Len(vals) > 0 =>
              /\ DictHas(ix, "Amount")
              /\ Len(DictGet(ix, "Amount")) = C10_Bins
              /\ \A i \in 1..C10_Bins :
                    LET bin == DictGet(ix, "Amount")[i]
                    IN /\ bin.k[1] = (2 * 100 * edge(i - 1) + C10_Bins) \div (2 * C10_Bins)
                       /\ bin.k[2] = (2 * 100 * edge(i) + C10_Bins) \div (2 * C10_Bins)
                       /\ Range(bin.v) =
                              {vals[k].idx : k \in {j \in DOMAIN vals :
                                  /\ C10_Bins * vals[j].v.n >= edge(i - 1)
                                  /\ C10_Bins * vals[j].v.n < edge(i)}}

----------------------------------------------------------------------------
(* FormatParser (format_parser.py).  Texts are sequences of one-character  *)
(* strings.  A float is kept exactly, as sign, significant decimal digits  *)
(* and a power of ten, so that 1234.56 is the digits 123456 with e = -2;   *)
(* binary rounding of the products and quotients is outside the model.     *)

\* str.isspace() on the characters of the model's alphabet
IsSpace(c) == c \in {" ", "\t"}

\* value.strip(), had the call been left out
NoStrip(text) == text

\* the first and last positions of text that are kept by str.strip()
Strip(text) ==
    LET keep == {i \in DOMAIN text : ~IsSpace(text[i])}
    IN IF keep = {} THEN <<>>
       ELSE SubSeq(text, CHOOSE i \in keep : \A j \in keep : i <= j,
                         CHOOSE i \in keep : \A j \in keep : i >= j)

StartsWith(text, pat) ==
    Len(pat) <= Len(text) /\ SubSeq(text, 1, Len(pat)) = pat

EndsWith(text, pat) ==
    Len(pat) <= Len(text) /\ SubSeq(text, Len(text) - Len(pat) + 1, Len(text)) = pat

\* text.replace(pat, rep) for a non-empty pat: the occurrences are found
\* from the left and do not overlap
Replace(text, pat, rep) ==
    LET RECURSIVE go(_)
        go(i) == IF i > Len(text) THEN <<>>
                 ELSE IF StartsWith(SubSeq(text, i, Len(text)), pat)
                      THEN rep \o go(i + Len(pat))
                      ELSE <<text[i]>> \o go(i + 1)
    IN go(1)

\* text.rindex(c) of a character that occurs in text
RIndex(text, c) == CHOOSE i \in DOMAIN text : text[i] = c /\ \A j \in DOMAIN text : text[j] = c => j <= i

\* str.upper() on the letters of the model's alphabet
Upper(c) ==
    CASE c = "k" -> "K" [] c = "m" -> "M" [] c = "b" -> "B" [] c = "t" -> "T"
      [] c = "r" -> "R" [] c = "a" -> "A" [] c = "c" -> "C" [] c = "q" -> "Q"
      [] c = "x" -> "X" [] OTHER -> c

UpperText(text) == [i \in DOMAIN text |-> Upper(text[i])]

\* re.sub(r'[...]', '', text): the characters of text that Drop rejects
DropChars(text, drop) == SelectSeq(text, LAMBDA c : c \notin drop)

\* Python None
None == [t |-> "None"]

\* a Python exception that leaves the function
Raises(exc) == [t |-> "raise", exc |-> exc]

\* a finite float: (-1)^neg * ds * 10^e, ds without leading or trailing
\* zeros; zero is the empty digit string, with neither sign nor exponent
\* (0.0 == -0.0)
Float(neg, ds, e) ==
    LET lead == {i \in DOMAIN ds : ds[i] # "0"}
    IN IF lead = {} THEN [t |-> "float", neg |-> FALSE, ds |-> <<>>, e |-> 0]
       ELSE LET a == CHOOSE i \in lead : \A j \in lead : i <= j
                b == CHOOSE i \in lead : \A j \in lead : i >= j
            IN [t |-> "float", neg |-> neg, ds |-> SubSeq(ds, a, b), e |-> e + (Len(ds) - b)]

IsZero(x) == x.ds = <<>>

\* x * 10^k
Scale(x, k) == IF IsZero(x) THEN x ELSE [x EXCEPT !.e = @ + k]

\* -x
Negate(x) == IF IsZero(x) THEN x ELSE [x EXCEPT !.neg = ~@]

\* float(text): surrounding white space, an optional sign, decimal digits
\* with at most one point and at least one digit.  (Exponents, underscores,
\* "inf" and "nan" need characters outside the model's alphabet.)
\* ok = FALSE stands for ValueError.
PyFloat(text) ==
    LET s == Strip(text)
        signed == Len(s) > 0 /\ s[1] \in {"+", "-"}
        body == IF signed THEN SubSeq(s, 2, Len(s)) ELSE s
        points == {i \in DOMAIN body : body[i] = "."}
        digits == DropChars(body, {"."})
        wellformed == /\ Cardinality(points) <= 1
                      /\ Len(digits) > 0
                      /\ \A i \in DOMAIN digits : IsDigit(digits[i])
        frac == IF points = {} THEN 0 ELSE Len(body) - (CHOOSE i \in points : TRUE)
    IN IF wellformed
       THEN [ok |-> TRUE, v |-> Float(signed /\ s[1] = "-", digits, 0 - frac)]
       ELSE [ok |-> FALSE, v |-> None]

\* a Python int
PyInt(k) == [t |-> "int", n |-> k]

\* float(value) of an int or a float
ToFloat(value) ==
    IF value.t = "int"
    THEN Float(value.n < 0, Digits(IF value.n < 0 THEN 0 - value.n ELSE value.n), 0)
    ELSE value

\* pd.isna(value) of a scalar
IsNaValue(value) == value.t \in {"None", "nan"}

\* self.currency_symbols, in the order the dict is written and iterated
currency_symbols ==
    <<[k |-> <<"$">>, v |-> "USD"], [k |-> <<"€">>, v |-> "EUR"],
      [k |-> <<"£">>, v |-> "GBP"], [k |-> <<"¥">>, v |-> "JPY"],
      [k |-> <<"₹">>, v |-> "INR"], [k |-> <<"k", "r">>, v |-> "SEK"],
      [k |-> <<"C", "H", "F">>, v |-> "CHF"], [k |-> <<"A", "$">>, v |-> "AUD"],
      [k |-> <<"C", "$">>, v |-> "CAD"]>>

\* self.abbreviations, each multiplier given as its power of ten
abbreviations ==
    <<[k |-> "K", v |-> 3], [k |-> "M", v |-> 6], [k |-> "B", v |-> 9], [k |-> "T", v |-> 12]>>

\* the loop "for symbol, code in self.currency_symbols.items()": the first
\* symbol of the table that occurs in value is removed everywhere; code is
\* default when none occurs
ExtractCurrency(value, default) ==
    LET hits == {i \in DOMAIN currency_symbols : IsSubstring(value, currency_symbols[i].k)}
    IN IF hits = {} THEN [code |-> default, value |-> value]
       ELSE LET i == CHOOSE h \in hits : \A g \in hits : h <= g
            IN [code |-> currency_symbols[i].v,
                value |-> Replace(value, currency_symbols[i].k, <<>>)]

\* lines 90-96: parenthesis wrapping, else a leading minus
StripSign(value) ==
    IF StartsWith(value, <<"(">>) /\ EndsWith(value, <<")">>)
    THEN [neg |-> TRUE, value |-> SubSeq(value, 2, Len(value) - 1)]
    ELSE IF StartsWith(value, <<"-">>)
         THEN [neg |-> TRUE, value |-> SubSeq(value, 2, Len(value))]
         ELSE [neg |-> FALSE, value |-> value]

\* value.upper().endswith(abbr), had the test been made on value itself
EndsWithAbbrCased(value, abbr) == EndsWith(value, <<abbr>>)

\* value.upper().endswith(abbr)
EndsWithAbbr(value, abbr) == EndsWith(UpperText(value), <<abbr>>)

\* lines 99-104: the first abbreviation of the table that ends value
StripAbbreviation(value) ==
    LET hits == {i \in DOMAIN abbreviations : EndsWithAbbr(value, abbreviations[i].k)}
    IN IF hits = {} THEN [exp |-> 0, value |-> value]
       ELSE [exp |-> abbreviations[CHOOSE h \in hits : \A g \in hits : h <= g].v,
             value |-> SubSeq(value, 1, Len(value) - 1)]

\* the test of line 111 with the comparison turned round
CommaIsDecimalReversed(value) == RIndex(value, ",") < RIndex(value, ".")

\* value.rindex(',') > value.rindex('.')
CommaIsDecimal(value) == RIndex(value, ",") > RIndex(value, ".")

\* re.search(r',\d{2}$', value)
EndsCommaTwoDigits(value) ==
    /\ Len(value) >= 3
    /\ value[Len(value) - 2] = ","
    /\ IsDigit(value[Len(value) - 1]) /\ IsDigit(value[Len(value)])

\* lines 108-124: decimal mark against thousands separator
CleanSeparators(value) ==
    IF (\E i \in DOMAIN value : value[i] = ",") /\ (\E i \in DOMAIN value : value[i] = ".")
    THEN IF CommaIsDecimal(value)
         THEN Replace(Replace(value, <<".">>, <<>>), <<",">>, <<".">>)
         ELSE Replace(value, <<",">>, <<>>)
    ELSE IF \E i \in DOMAIN value : value[i] = ","
         THEN IF EndsCommaTwoDigits(value)
              THEN Replace(value, <<",">>, <<".">>)
              ELSE Replace(value, <<",">>, <<>>)
         ELSE value

\* parse_amount on a text that is already stripped and not empty (lines 81-138)
ParseAmountText(text, detected_format) ==
    LET cur == ExtractCurrency(text, "")
        sgn == StripSign(cur.value)
        abb == StripAbbreviation(sgn.value)
        sep == CleanSeparators(abb.value)
        ind == IF detected_format = "indian" THEN DropChars(sep, {",", " ", "\t"}) ELSE sep
        f == PyFloat(ind)
    IN IF ~f.ok THEN None
       ELSE IF sgn.neg THEN Negate(Scale(f.v, abb.exp)) ELSE Scale(f.v, abb.exp)

\* parse_amount(value, detected_format)
ParseAmount(value, detected_format) ==
    IF IsNaValue(value) THEN None
    ELSE IF value.t \in {"int", "float"} THEN ToFloat(value)
    ELSE IF Strip(value.s) = <<>> THEN None
    ELSE ParseAmountText(Strip(value.s), detected_format)

\* 10^k
Pow10(k) ==
    LET RECURSIVE go(_)
        go(i) == IF i = 0 THEN 1 ELSE 10 * go(i - 1)
    IN go(k)

\* amount * rate, which line 239 would give had it multiplied
Multiply(x, r) ==
    IF IsZero(x) THEN x
    ELSE Float(x.neg # r.neg, Digits(ParseDigits(x.ds) * ParseDigits(r.ds)), x.e + r.e)

\* amount / rate for a rate whose digits divide a power of ten (2, 0.5,
\* 1.25, ...), so that the quotient is a finite decimal
Divide(x, r) ==
    LET xm == ParseDigits(x.ds)
        rm == ParseDigits(r.ds)
        RECURSIVE shift(_)
        shift(k) == IF (xm * Pow10(k)) % rm = 0 THEN k ELSE shift(k + 1)
        k == shift(0)
    IN IF IsZero(x) THEN x
       ELSE Float(x.neg # r.neg, Digits((xm * Pow10(k)) \div rm), x.e - r.e - k)

\* the dictionary that normalize_currency returns
CurrencyRecord(value, currency, original_value) ==
    [t |-> "dict", value |-> value, currency |-> currency, original_value |-> original_value]

\* the argument exchange_rates: None, or a dict code -> rate
NoRates == [given |-> FALSE, rates |-> <<>>]

RateTable(d) == [given |-> TRUE, rates |-> d]

\* lines 237-242; an empty dict is false like None
ApplyRate(amount, currency_code, target_currency, exchange_rates) ==
    IF /\ amount.t # "None"
       /\ exchange_rates.given /\ Len(exchange_rates.rates) > 0
       /\ currency_code # target_currency
       /\ DictHas(exchange_rates.rates, currency_code)
    THEN Divide(amount, DictGet(exchange_rates.rates, currency_code))
    ELSE amount

\* normalize_currency(value, target_currency, exchange_rates)
NormalizeCurrency(value, target_currency, exchange_rates) ==
    IF IsNaValue(value) THEN CurrencyRecord(None, None, value)
    ELSE IF value.t \in {"int", "float"}
         THEN CurrencyRecord(ToFloat(value), target_currency, value)
    ELSE LET stripped == Strip(value.s)
             cur == ExtractCurrency(stripped, target_currency)
             amount == ParseAmount(Str(cur.value), "")
         IN IF stripped = <<>> THEN CurrencyRecord(None, None, Str(stripped))
            ELSE CurrencyRecord(ApplyRate(amount, cur.code, target_currency, exchange_rates),
                                cur.code, Str(stripped))

\* str(value) of an int or a float of ordinary size
PyStr(value) ==
    LET zeros(n) == [i \in 1..n |-> "0"]
        sign == IF value.t = "int" THEN (IF value.n < 0 THEN <<"-">> ELSE <<>>)
                ELSE (IF value.neg THEN <<"-">> ELSE <<>>)
    IN IF value.t = "int" THEN sign \o Digits(IF value.n < 0 THEN 0 - value.n ELSE value.n)
       ELSE IF IsZero(value) THEN <<"0", ".", "0">>
       ELSE IF value.e >= 0 THEN sign \o value.ds \o zeros(value.e) \o <<".", "0">>
       ELSE IF Len(value.ds) > 0 - value.e
            THEN sign \o SubSeq(value.ds, 1, Len(value.ds) + value.e) \o <<".">>
                      \o SubSeq(value.ds, Len(value.ds) + value.e + 1, Len(value.ds))
            ELSE sign \o <<"0", ".">> \o zeros(0 - value.e - Len(value.ds)) \o value.ds

\* handle_special_formats(value, format_type)
HandleSpecialFormats(value, format_type) ==
    IF IsNaValue(value) THEN None
    ELSE LET text == Strip(IF value.t = "str" THEN value.s ELSE PyStr(value))
         IN IF text = <<>> THEN None
            ELSE CASE format_type = "account_code" ->
                         Str(UpperText(DropChars(text, {" ", "\t", "-"})))
                   [] format_type = "reference_number" ->
                         Str(DropChars(text, {" ", "\t"}))
                   [] format_type = "percentage" ->
                         LET f == PyFloat(Replace(text, <<"%">>, <<>>))
                         IN IF f.ok THEN Scale(f.v, 0 - 2) ELSE None
                   [] OTHER -> Str(text)

\* datetime.date(y, m, d)
Date(y, m, d) == [t |-> "date", y |-> y, m |-> m, d |-> d]

\* a datetime.datetime value: a date and an hour of that day
DateTime(y, m, d, h) == [t |-> "datetime", y |-> y, m |-> m, d |-> d, h |-> h]

IsLeap(y) == y % 4 = 0 /\ (y % 100 # 0 \/ y % 400 = 0)

DaysInMonth(y, m) ==
    IF m = 2 THEN (IF IsLeap(y) THEN 29 ELSE 28)
    ELSE IF m \in {4, 6, 9, 11} THEN 30 ELSE 31

\* days before 1 January of year y, counted from 0001-01-01
DaysBeforeYear(y) ==
    LET p == y - 1 IN p * 365 + (p \div 4) - (p \div 100) + (p \div 400)

\* days of year y before the first of month m
DaysBeforeMonth(y, m) ==
    LET RECURSIVE go(_)
        go(k) == IF k = 0 THEN 0 ELSE DaysInMonth(y, k) + go(k - 1)
    IN go(m - 1)

\* date.toordinal(): 0001-01-01 is day 1
ToOrdinal(y, m, d) == DaysBeforeYear(y) + DaysBeforeMonth(y, m) + d

\* date.fromordinal(n): the year by the 400-, 100-, 4- and 1-year cycles,
\* then the month by running through the year
FromOrdinal(ord) ==
    LET n0 == ord - 1
        n400 == n0 \div 146097
        r400 == n0 % 146097
        n100 == r400 \div 36524
        r100 == r400 % 36524
        n4 == r100 \div 1461
        r4 == r100 % 1461
        n1 == r4 \div 365
        r1 == r4 % 365
        y == n400 * 400 + n100 * 100 + n4 * 4 + n1 + 1
        RECURSIVE month(_, _)
        month(m, left) == IF left < DaysInMonth(y, m) THEN <<m, left + 1>>
                          ELSE month(m + 1, left - DaysInMonth(y, m))
        md == month(1, r1)
    IN IF n1 = 4 \/ n100 = 4 THEN Date(y - 1, 12, 31) ELSE Date(y, md[1], md[2])

\* the bounds of line 163
SerialMin == 36000

SerialMax == 50000

\* the whole days of a float that is not negative
Floor(x) ==
    IF IsZero(x) \/ Len(x.ds) + x.e <= 0 THEN 0
    ELSE IF x.e >= 0 THEN ParseDigits(x.ds) * Pow10(x.e)
    ELSE ParseDigits(SubSeq(x.ds, 1, Len(x.ds) + x.e))

\* 36000 <= value <= 50000 for an int or a float
InSerialRange(value) ==
    IF value.t = "int" THEN SerialMin <= value.n /\ value.n <= SerialMax
    ELSE /\ ~value.neg
         /\ SerialMin <= Floor(value)
         /\ (Floor(value) < SerialMax \/ (Floor(value) = SerialMax /\ value.e >= 0))

\* origin='1899-12-30', had the origin been the day after
OriginNextDay == ToOrdinal(1899, 12, 31)

\* origin='1899-12-30'
Origin == ToOrdinal(1899, 12, 30)

\* pd.to_datetime(value, unit='D', origin='1899-12-30').date(): the time of
\* day that a fraction gives is dropped
ExcelDate(value) ==
    FromOrdinal(Origin + (IF value.t = "int" THEN value.n ELSE Floor(value)))

\* re.match(r'Q([1-4])\s+(\d{4})', value): a match at the start of value;
\* whatever follows the four digits is not looked at
QuarterMatch(value) ==
    LET rest == {i \in 3..Len(value) : ~IsSpace(value[i])}
        j == IF rest = {} THEN Len(value) + 1 ELSE CHOOSE i \in rest : \A k \in rest : i <= k
    IN IF /\ Len(value) >= 7
          /\ value[1] = "Q" /\ value[2] \in {"1", "2", "3", "4"}
          /\ j > 3 /\ j + 3 <= Len(value)
          /\ \A k \in j..(j + 3) : IsDigit(value[k])
       THEN [ok |-> TRUE, quarter |-> DigitVal(value[2]),
             year |-> ParseDigits(SubSeq(value, j, j + 3))]
       ELSE [ok |-> FALSE, quarter |-> 0, year |-> 0]

\* dateutil's parser.parse(value).date(), or None when it raises: the
\* library is not part of the repository and its result is left
\* uninterpreted
DateutilParse(value) == [t |-> "dateutil", of |-> value]

\* parse_date(value, detected_format)
ParseDate(value, detected_format) ==
    IF IsNaValue(value) THEN None
    ELSE IF value.t = "datetime" THEN Date(value.y, value.m, value.d)
    ELSE IF value.t = "date" THEN value
    ELSE IF value.t \in {"int", "float"} /\ InSerialRange(value) THEN ExcelDate(value)
    ELSE LET text == Strip(IF value.t = "str" THEN value.s ELSE PyStr(value))
             q == QuarterMatch(text)
         IN IF text = <<>> THEN None
            ELSE IF q.ok
                 THEN IF q.year < 1 THEN Raises("ValueError")
                      ELSE Date(q.year, (q.quarter - 1) * 3 + 1, 1)
                 ELSE DateutilParse(text)

----------------------------------------------------------------------------
(* The operations of FormatParser.  The parser keeps no state between      *)
(* calls: a call leaves its arguments in call and its value in result.     *)
(* call.shape records how an argument was put together.                    *)

\* parse_amount(value, detected_format) (lines 53-138)
parse_amount(value, detected_format, shape) ==
    /\ pc = "idle"
    /\ call' = [op |-> "parse_amount", value |-> value, hint |-> detected_format, shape |-> shape]
    /\ result' = ParseAmount(value, detected_format)
    /\ pc' = "returned"
    /\ UNCHANGED <<mem, sql, fil, src, stored>>

\* parse_date(value, detected_format) (lines 140-193)
parse_date(value, detected_format, shape) ==
    /\ pc = "idle"
    /\ call' = [op |-> "parse_date", value |-> value, hint |-> detected_format, shape |-> shape]
    /\ result' = ParseDate(value, detected_format)
    /\ pc' = "returned"
    /\ UNCHANGED <<mem, sql, fil, src, stored>>

\* normalize_currency(value, target_currency, exchange_rates) (lines 195-248)
normalize_currency(value, target_currency, exchange_rates, shape) ==
    /\ pc = "idle"
    /\ call' = [op |-> "normalize_currency", value |-> value, target |-> target_currency,
                rates |-> exchange_rates, shape |-> shape]
    /\ result' = NormalizeCurrency(value, target_currency, exchange_rates)
    /\ pc' = "returned"
    /\ UNCHANGED <<mem, sql, fil, src, stored>>

\* handle_special_formats(value, format_type) (lines 250-293)
handle_special_formats(value, format_type) ==
    /\ pc = "idle"
    /\ call' = [op |-> "handle_special_formats", value |-> value, format_type |-> format_type]
    /\ result' = HandleSpecialFormats(value, format_type)
    /\ pc' = "returned"
    /\ UNCHANGED <<mem, sql, fil, src, stored>>

----------------------------------------------------------------------------
(* Inputs of the parser runs *)

\* the largest number of digit groups of an amount text
MaxGroups == 3

\* the longest free text handed to handle_special_formats
MaxText == 3

\* how far beyond the serial range the numeric dates reach
Margin == 2

\* concatenation of a sequence of texts
Concat(texts) ==
    LET RECURSIVE go(_)
        go(i) == IF i > Len(texts) THEN <<>> ELSE texts[i] \o go(i + 1)
    IN go(1)

\* absent values and texts of nothing but white space
Absent == {None, NaN}

Blank == {Str(<<>>), Str(<<" ">>), Str(<<" ", "\t", " ">>)}

NoShape == [kind |-> "none"]

\* digit groups and the texts made of them: groups[1] seps[1] groups[2] ...
DigitGroups == {<<"1">>, <<"2", "3">>, <<"4", "0", "0">>}

Cores ==
    UNION {{[groups |-> g, seps |-> sp] :
                g \in [1..n -> DigitGroups], sp \in [1..(n - 1) -> {",", "."}]} : n \in 1..MaxGroups}

CoreText(c) ==
    Concat([i \in 1..(2 * Len(c.groups) - 1) |->
               IF i % 2 = 1 THEN c.groups[(i + 1) \div 2] ELSE <<c.seps[i \div 2]>>])

\* an amount text: currency symbol, negative marker, number, magnitude letter
AmountShape(sym, neg, core, mag) ==
    [kind |-> "amount", sym |-> sym, neg |-> neg, core |-> core, mag |-> mag]

AmountText(sh) ==
    LET body == CoreText(sh.core) \o sh.mag
    IN sh.sym \o (CASE sh.neg = "paren" -> <<"(">> \o body \o <<")">>
                    [] sh.neg = "minus" -> <<"-">> \o body
                    [] OTHER -> body)

Magnitudes == {<<>>, <<"K">>, <<"k">>, <<"M">>, <<"m">>, <<"B">>, <<"b">>, <<"T">>, <<"t">>}

Hints == {"", "indian", "european"}

AmountCalls ==
    {[value |-> Str(AmountText(sh)), hint |-> "", shape |-> sh] :
        sh \in {AmountShape(<<>>, n, c, m) :
                    n \in {"none", "paren", "minus"}, c \in Cores, m \in Magnitudes}}
    \cup {[value |-> Str(AmountText(sh)), hint |-> h, shape |-> sh] :
            h \in Hints,
            sh \in {AmountShape(y, "none", c, <<>>) :
                        y \in {<<>>, <<"$">>, <<"€">>, <<"₹">>}, c \in Cores}}
    \cup {[value |-> v, hint |-> h, shape |-> NoShape] :
            h \in Hints,
            v \in Absent \cup Blank \cup {PyInt(42), Float(FALSE, <<"4", "2", "5">>, 0 - 1),
                                          Str(<<"N", "/", "A">>)}}

\* a currency text: white space, symbol, plain number, white space
CurrencyShape(sym, number, pad) ==
    [kind |-> "currency", sym |-> sym, number |-> number, pad |-> pad]

CurrencyText(sh) == sh.pad \o sh.sym \o sh.number \o sh.pad

PlainNumbers == {<<"1", "0", "0">>, <<"1", ".", "5">>, <<"7">>}

\* exchange rates whose quotients are finite decimals
Half == Float(FALSE, <<"5">>, 0 - 1)

Two == Float(FALSE, <<"2">>, 0)

FiveFourths == Float(FALSE, <<"1", "2", "5">>, 0 - 2)

RateTables ==
    {NoRates, RateTable(<<>>), RateTable(<<[k |-> "EUR", v |-> Half]>>),
     RateTable(<<[k |-> "USD", v |-> Two], [k |-> "EUR", v |-> Half],
                 [k |-> "SEK", v |-> FiveFourths], [k |-> "AUD", v |-> Two]>>)}

CurrencyCalls ==
    {[value |-> Str(CurrencyText(sh)), shape |-> sh] :
        sh \in {CurrencyShape(y, n, pad) :
                    y \in {<<>>} \cup {currency_symbols[i].k : i \in DOMAIN currency_symbols},
                    n \in PlainNumbers, pad \in {<<>>, <<" ">>}}}
    \cup {[value |-> v, shape |-> NoShape] :
            v \in Absent \cup Blank \cup {PyInt(5), Float(FALSE, <<"2", "5">>, 0 - 1),
                                          Str(<<"N", "/", "A">>)}}

\* free texts for handle_special_formats
TextChars == {"a", "-", " ", "5", "%"}

FreeTexts == UNION {[1..n -> TextChars] : n \in 0..MaxText}

FormatTypes == {"account_code", "reference_number", "percentage", ""}

SpecialValues == {Str(cs) : cs \in FreeTexts} \cup Absent \cup Blank \cup {PyInt(12)}

\* a quarter text: letter, quarter digit, white space, year, rest
QuarterShape(letter, q, ws, year, rest) ==
    [kind |-> "quarter", letter |-> letter, q |-> q, ws |-> ws, year |-> year, rest |-> rest]

QuarterText(sh) == <<sh.letter, DigitChars[sh.q + 1]>> \o sh.ws \o sh.year \o sh.rest

Years == {<<"0", "0", "0", "0">>, <<"0", "0", "0", "1">>, <<"2", "0", "2", "3">>,
          <<"9", "9", "9", "9">>}

\* a number handed to parse_date: tenths / 10, an int when it is whole and
\* asInt, a float otherwise
SerialShape(tenths, asInt) == [kind |-> "serial", tenths |-> tenths, asInt |-> asInt]

SerialValue(sh) ==
    IF sh.asInt THEN PyInt(sh.tenths \div 10) ELSE Float(FALSE, Digits(sh.tenths), 0 - 1)

DateCalls ==
    {[value |-> Str(QuarterText(sh)), hint |-> "", shape |-> sh] :
        sh \in {QuarterShape(l, q, ws, y, r) :
                    l \in {"Q", "q"}, q \in 0..5, ws \in {<<>>, <<" ">>, <<" ", " ">>},
                    y \in Years, r \in {<<>>, <<"x">>}}}
    \cup {[value |-> SerialValue(sh), hint |-> "", shape |-> sh] :
            sh \in {SerialShape(10 * k + f, f = 0 /\ i) :
                        k \in (SerialMin - Margin)..(SerialMax + Margin),
                        f \in {0, 5}, i \in BOOLEAN}}
    \cup {[value |-> v, hint |-> h, shape |-> NoShape] :
            h \in {"", "excel_serial"},
            v \in Absent \cup Blank \cup {Date(2023, 12, 31), DateTime(2023, 12, 31, 13),
                                          Str(<<"N", "/", "A">>)}}

InitP == Fresh /\ pc = "idle"

NextP ==
    \/ pc = "idle" /\ \E c \in AmountCalls : parse_amount(c.value, c.hint, c.shape)
    \/ pc = "idle" /\ \E c \in DateCalls : parse_date(c.value, c.hint, c.shape)
    \/ pc = "idle" /\ \E c \in CurrencyCalls, target \in {"USD", "EUR"}, rates \in RateTables :
          normalize_currency(c.value, target, rates, c.shape)
    \/ pc = "idle" /\ \E v \in SpecialValues, ft \in FormatTypes : handle_special_formats(v, ft)
    \/ Return

SpecP == InitP /\ [][NextP]_vars

----------------------------------------------------------------------------
(* Properties of FormatParser *)

\* an absent value, or a text of nothing but white space (the empty text
\* included)
AbsentOrBlank(v) ==
    \/ v.t \in {"None", "nan"}
    \/ v.t = "str" /\ \A i \in DOMAIN v.s : v.s[i] \in {" ", "\t"}

\* C11: absent, empty and white-space-only input gives an absent result and
\* no error: parse_amount, parse_date and handle_special_formats return
\* None and normalize_currency returns a record whose value is None, for
\* every format hint.
C11_AbsentGivesAbsent ==
    (/\ pc = "returned"
     /\ call.op \in {"parse_amount", "parse_date", "handle_special_formats", "normalize_currency"}
     /\ AbsentOrBlank(call.value)) =>
        IF call.op = "normalize_currency"
        THEN result.t = "dict" /\ result.value = None
        ELSE result = None

\* C11 witness: handle_special_formats, called without a format type on a
\* text of blanks and a tab, has returned None
C11_Witness ==
    /\ Returned("handle_special_formats")
    /\ call.value = Str(<<" ", "\t", " ">>) /\ call.format_type = ""
    /\ result = None

\* a number text in which both separators occur, dec once and last
C12_Shaped(sh, dec) ==
    /\ sh.kind = "amount" /\ sh.neg = "none" /\ sh.mag = <<>>
    /\ Len(sh.core.groups) >= 3
    /\ sh.core.seps[Len(sh.core.seps)] = dec
    /\ \A i \in 1..(Len(sh.core.seps) - 1) : sh.core.seps[i] # dec

\* C12: when "," and "." both occur, the rightmost one is the decimal mark
\* and the other character is removed: the result is the number whose
\* digits are those of the text and whose fraction is the last group, so
\* the US-shaped text and its European mirror image give the same value.
C12_RightmostIsDecimal ==
    Returned("parse_amount") =>
        \A dec \in {",", "."} :
            C12_Shaped(call.shape, dec) =>
                LET core == call.shape.core
                    mirror == [core EXCEPT !.seps = [i \in DOMAIN core.seps |->
                                                        IF core.seps[i] = "," THEN "." ELSE ","]]
                IN /\ result = Float(FALSE, Concat(core.groups),
                                     0 - Len(core.groups[Len(core.groups)]))
                   /\ result = ParseAmount(Str(call.shape.sym \o CoreText(mirror)), call.hint)

\* C12 witness: "€1.400,23" has been parsed to 1400.23
C12_Witness ==
    /\ Returned("parse_amount")
    /\ call.value = Str(<<"€", "1", ".", "4", "0", "0", ",", "2", "3">>)
    /\ result = Float(FALSE, <<"1", "4", "0", "0", "2", "3">>, 0 - 2)

\* the power of ten of a magnitude letter
C13_Exponent(mag) ==
    CASE mag \in {<<"K">>, <<"k">>} -> 3
      [] mag \in {<<"M">>, <<"m">>} -> 6
      [] mag \in {<<"B">>, <<"b">>} -> 9
      [] mag \in {<<"T">>, <<"t">>} -> 12
      [] OTHER -> 0

\* a plain number: digits, digits.digits, or comma-grouped digits.digits
C13_IsNumber(core) ==
    LET n == Len(core.groups)
    IN /\ \A i \in 1..(n - 2) : core.seps[i] = ","
       /\ n = 1 \/ core.seps[n - 1] = "."

\* C13: sign and magnitude.  For a number, optionally followed by one of
\* K, M, B, T in either case and optionally wrapped in parentheses or led
\* by a minus, parse_amount returns the number times 1e3, 1e6, 1e9 or 1e12,
\* negated exactly when a negative marker is present.
C13_SignAndMagnitude ==
    (/\ Returned("parse_amount")
     /\ call.shape.kind = "amount" /\ call.shape.sym = <<>> /\ call.hint = ""
     /\ C13_IsNumber(call.shape.core)) =>
        LET core == call.shape.core
            n == Len(core.groups)
            fraction == IF n = 1 THEN 0 ELSE Len(core.groups[n])
        IN result = Float(call.shape.neg # "none", Concat(core.groups),
                          C13_Exponent(call.shape.mag) - fraction)

\* C13 witness: "(1,400.23m)" has been parsed to -1400230000
C13_Witness ==
    /\ Returned("parse_amount")
    /\ call.value = Str(<<"(", "1", ",", "4", "0", "0", ".", "2", "3", "m", ")">>)
    /\ result = Float(TRUE, <<"1", "4", "0", "0", "2", "3">>, 4)

\* C14: with the hint "indian" every comma is dropped whatever its place:
\* a comma-grouped digit string parses to the number formed by its digits.
C14_IndianDropsCommas ==
    (/\ Returned("parse_amount")
     /\ call.hint = "indian"
     /\ call.shape.kind = "amount" /\ call.shape.neg = "none" /\ call.shape.mag = <<>>
     /\ \A i \in DOMAIN call.shape.core.seps : call.shape.core.seps[i] = ",") =>
        result = Float(FALSE, Concat(call.shape.core.groups), 0)

\* C15: for every entry symbol -> code of the currency symbol table,
\* normalize_currency of the symbol followed by a plain number reports the
\* entry's code as the currency and the number as the value.
C15_SymbolTable ==
    (/\ Returned("normalize_currency")
     /\ call.shape.kind = "currency" /\ call.shape.sym # <<>> /\ call.shape.pad = <<>>
     /\ ~call.rates.given) =>
        \A i \in DOMAIN currency_symbols :
            currency_symbols[i].k = call.shape.sym =>
                /\ result.currency = currency_symbols[i].v
                /\ result.value = PyFloat(call.shape.number).v

C17_OriginalValueIsRaw ==
    Returned("normalize_currency") => result.original_value = call.value

\* C18: handle_special_formats with the format type "account_code" is
\* idempotent: applied to its own result it gives that result again.
C18_AccountCodeIdempotent ==
    (Returned("handle_special_formats") /\ call.format_type = "account_code") =>
        HandleSpecialFormats(result, "account_code") = result

\* C19: parse_date maps every text "Q<q> <YYYY>" with q in 1..4 to the
\* date (YYYY, 3 * (q - 1) + 1, 1).
C19_QuarterStart ==
    (/\ Returned("parse_date")
     /\ call.shape.kind = "quarter" /\ call.shape.letter = "Q" /\ call.shape.q \in 1..4
     /\ call.shape.ws = <<" ">> /\ call.shape.rest = <<>>) =>
        result = Date(ParseDigits(call.shape.year), 3 * (call.shape.q - 1) + 1, 1)

\* the number of days from 1970-01-01 to the civil date (y, m, d), counted
\* in eras of 400 years that begin on 1 March
DaysFromCivil(y, m, d) ==
    LET yy == IF m <= 2 THEN y - 1 ELSE y
        era == yy \div 400
        yoe == yy - era * 400
        doy == (153 * (IF m > 2 THEN m - 3 ELSE m + 9) + 2) \div 5 + d - 1
        doe == yoe * 365 + yoe \div 4 - yoe \div 100 + doy
    IN era * 146097 + doe - 719468

\* a record that is a day of the calendar
C20_IsCalendarDate(r) ==
    /\ r.t = "date" /\ r.m \in 1..12 /\ r.d \in 1..31
    /\ r.m \in {4, 6, 9, 11} => r.d <= 30
    /\ r.m = 2 => r.d <= (IF r.y % 4 = 0 /\ (r.y % 100 # 0 \/ r.y % 400 = 0) THEN 29 ELSE 28)

C21_ParsersTotal ==
    (/\ pc = "returned"
     /\ call.op \in {"parse_amount", "parse_date", "normalize_currency", "handle_special_formats"}) =>
        result.t # "raise"

\* C30: after create_indexes on the memory backend for a number column the
\* amount index partitions the column's rows: every row that holds a
\* non-missing value, the rows of the minimum and of the maximum included,
\* is listed in exactly one bin, and no bin lists a row that the dataset
\* does not have.
C30_AmountIndexPartitions ==
    (/\ Returned("create_indexes")
     /\ \E j \in DOMAIN call.columns : call.columns[j] = "Amount"
     /\ mem.data[call.name].present
     /\ TypeOf(mem.metadata[call.name].column_types, "Amount") = "number"
     /\ result.memory) =>
        LET df == Deref(mem.data[call.name], src)
            vals == DropNa(df, "Amount")
            ix == mem.indexes[call.name].amount_index
            bins == IF DictHas(ix, "Amount") THEN DictGet(ix, "Amount") ELSE <<>>
            places == {p \in (DOMAIN bins) \X (1..NRows(df)) : p[2] \in DOMAIN bins[p[1]].v}
        IN /\ \A k \in DOMAIN vals :
                 Cardinality({p \in places : bins[p[1]].v[p[2]] = vals[k].idx}) = 1
           /\ \A p \in places : \E i \in DOMAIN df.index : df.index[i] = bins[p[1]].v[p[2]]

----------------------------------------------------------------------------
(* Runs with close(): the caller stores a table under each name at most   *)
(* once, the name of the bookkeeping table included, closes the three      *)
(* instances at some point and goes on calling them.                       *)

\* close(), had it left self.conn as it was
CloseSqliteKeepsConn(db) == db

\* lines 651-653: self.conn.close(); self.conn = None
CloseSqlite(db) == IF db.conn THEN [db EXCEPT !.conn = FALSE] ELSE db

\* close() on the three instances (lines 647-653); it returns nothing
close ==
    /\ pc = "idle"
    /\ sql' = CloseSqlite(sql)
    /\ call' = [NoCall EXCEPT !.op = "close"]
    /\ result' = NoResult
    /\ pc' = "returned"
    /\ UNCHANGED <<mem, fil, src, stored>>

TablesC == TablesOf(RowsA, {"range"})

InitC == Fresh /\ pc = "idle"

NextC ==
    \/ \E name \in Names, df \in TablesC :
          ~stored["memory"][name].present /\ store_data(name, df, CtFull)
    \/ close
    \/ \E filters \in FiltersA : query_by_criteria("d1", filters)
    \/ \E a \in AggArgsA : aggregate_data("d1", a.g, a.ms)
    \/ create_indexes("d1", <<"Amount">>)
    \/ \E name \in NamesA : get_metadata(name)
    \/ Return

SpecC == InitC /\ [][NextC]_vars

\* C27: store_data(name, ...) changes only the dataset called name: every
\* other dataset already stored in the same backend has the same rows, the
\* same metadata and the same indexes before and after the call, whatever
\* the name and whether the call succeeds or fails.
C27_StoreChangesOneDataset ==
    [][(pc # "returned" /\ pc' = "returned" /\ call'.op = "store_data") =>
          \A n \in Names \ {call'.name} :
              /\ stored["memory"][n].present =>
                    /\ mem'.data[n] = mem.data[n]
                    /\ mem'.metadata[n] = mem.metadata[n]
                    /\ mem'.indexes[n] = mem.indexes[n]
              /\ stored["sqlite"][n].present =>
                    /\ SqlTable(sql', n) = SqlTable(sql, n)
                    /\ GetMetadataSqlite(sql', n) = GetMetadataSqlite(sql, n)
                    /\ {sql'.indexes[i] : i \in {j \in DOMAIN sql'.indexes : sql'.indexes[j].k[1] = n}}
                          = {sql.indexes[i] : i \in {j \in DOMAIN sql.indexes : sql.indexes[j].k[1] = n}}
              /\ stored["file"][n].present =>
                    /\ fil'.csv[n] = fil.csv[n]
                    /\ fil'.json[n] = fil.json[n]]_vars

\* C28: after close() the sqlite instance has no connection and reports
\* failure by value: store_data and create_indexes return False,
\* query_by_criteria and aggregate_data return an empty table, get_metadata
\* returns an empty map; close() changes nothing in the memory and file
\* instances, and a second close() changes nothing at all.
C28_AfterClose ==
    /\ []((pc = "returned" /\ ~sql.conn) =>
            CASE call.op \in {"store_data", "create_indexes"} -> result.sqlite = FALSE
              [] call.op \in {"query_by_criteria", "aggregate_data"} -> result.sqlite = EmptyFrame
              [] call.op = "get_metadata" -> result.sqlite = EmptyMap
              [] OTHER -> TRUE)
    /\ [][(pc = "idle" /\ pc' = "returned" /\ call'.op = "close") =>
            /\ ~sql'.conn
            /\ mem' = mem /\ fil' = fil
            /\ ~sql.conn => sql' = sql
            /\ \A n \in Names : /\ sql'.tables[n] = sql.tables[n]
            /\ sql'.metadata = sql.metadata]_vars

\* C28 witness: a table with a row was stored under "d1", the instances
\* were closed, and a query with no filter has returned the row from the
\* memory instance and an empty table from the sqlite instance
C28_Witness ==
    /\ Returned("query_by_criteria")
    /\ call.name = "d1" /\ call.filters = {}
    /\ ~sql.conn
    /\ stored["sqlite"]["d1"].present /\ NRows(stored["sqlite"]["d1"].df) > 0
    /\ NRows(result.memory) > 0
    /\ result.sqlite = EmptyFrame

----------------------------------------------------------------------------
(* Two writers of the file backend: two store_data calls for the same      *)
(* dataset name run _store_in_file (lines 150-177) side by side.  A file   *)
(* opened with mode 'w' is emptied when it is opened, and the buffered     *)
(* text is written from the start of the file when the handle is closed;   *)
(* nothing is cut off at that time.  In these runs pc, call and result     *)
(* hold one entry per writer.  A line of the CSV file stands for its       *)
(* bytes: the rows of the model are all of the same width.                 *)

Writers == {"w1", "w2"}

RowsW == {<<Str(<<"a">>), Num(1)>>, <<Str(<<"b">>), Num(2)>>}

TablesW == TablesOf(RowsW, {"range"})

\* open(path, 'w'): the file exists and is empty
Truncated == [present |-> TRUE, header |-> <<>>, lines |-> <<>>]

\* the handle writes text at the start of the file and is closed: what the
\* file held beyond the length of text stays
WriteFromStart(file, text) ==
    [present |-> TRUE,
     header |-> text.header,
     lines |-> text.lines \o SubSeq(file.lines, Len(text.lines) + 1, Len(file.lines))]

\* the metadata dictionary of lines 163-168 as json.dump writes it
Sidecar(c) == JsonMeta(Meta(c.ct, NRows(c.df), Len(c.df.columns)))

\* line 160, first half: df.to_csv opens csv_path
OpenCsv(w) ==
    /\ pc[w] = "start"
    /\ fil' = [fil EXCEPT !.csv[call[w].name] = Truncated]
    /\ pc' = [pc EXCEPT ![w] = "csv_open"]
    /\ UNCHANGED <<mem, sql, src, stored, call, result>>

\* line 160, second half: df.to_csv writes the text and closes the file
WriteCsv(w) ==
    /\ pc[w] = "csv_open"
    /\ fil' = [fil EXCEPT !.csv[call[w].name] = WriteFromStart(@, ToCsv(call[w].df))]
    /\ pc' = [pc EXCEPT ![w] = "csv_closed"]
    /\ UNCHANGED <<mem, sql, src, stored, call, result>>

\* line 171: open(json_path, 'w')
OpenJson(w) ==
    /\ pc[w] = "csv_closed"
    /\ fil' = [fil EXCEPT !.json[call[w].name] = NoMeta]
    /\ pc' = [pc EXCEPT ![w] = "json_open"]
    /\ UNCHANGED <<mem, sql, src, stored, call, result>>

\* lines 172-174: json.dump, the file is closed, return True.  The texts
\* of the two writers have the same length (same column_types, row counts
\* of one digit), so the later text replaces the earlier one whole.
WriteJson(w) ==
    /\ pc[w] = "json_open"
    /\ fil' = [fil EXCEPT !.json[call[w].name] = Sidecar(call[w])]
    /\ pc' = [pc EXCEPT ![w] = "returned"]
    /\ result' = [result EXCEPT ![w] = TRUE]
    /\ UNCHANGED <<mem, sql, src, stored, call>>

InitW ==
    /\ mem = MemInit
    /\ sql = SqlInit
    /\ fil = FileInit
    /\ src = EmptyFrame
    /\ stored = [b \in Backends |-> [n \in Names |-> NoStore]]
    /\ call \in [Writers -> {[NoCall EXCEPT !.op = "store_data", !.name = "d1", !.df = df,
                                            !.ct = CtFull] : df \in TablesW}]
    /\ result = [w \in Writers |-> FALSE]
    /\ pc = [w \in Writers |-> "start"]

NextW == \E w \in Writers : OpenCsv(w) \/ WriteCsv(w) \/ OpenJson(w) \/ WriteJson(w)

SpecW == InitW /\ [][NextW]_vars

\* C26: when two store_data calls of the file backend for the same name
\* interleave, then after both have finished the CSV file holds the
\* complete text of one of the writers and the sidecar holds the complete
\* metadata of one of the writers (not necessarily the same one).
C26_LastWriterWins ==
    (\A w \in Writers : pc[w] = "returned") =>
        /\ \E w \in Writers : fil.csv["d1"] = ToCsv(call[w].df)
        /\ \E w \in Writers : fil.json["d1"] = Sidecar(call[w])

----------------------------------------------------------------------------
(* A model of src/src/core/type_detector.py (class DataTypeDetector).      *)
(* A column is a pandas Series given as the sequence of its cells; a text  *)
(* cell is a sequence of characters.                                       *)
(*                                                                         *)
(* Regular expressions are given as trees and matched as the re module     *)
(* matches them: MatchEnds is the set of positions where a match of the    *)
(* tree that starts at position i can end.                                 *)

DigitSet == {"0", "1", "2", "3", "4", "5", "6", "7", "8", "9"}

LetterSet ==
    {"a", "b", "c", "d", "e", "f", "g", "h", "i", "j", "k", "l", "m", "n", "o", "p", "q",
     "r", "s", "t", "u", "v", "w", "x", "y", "z", "A", "B", "C", "D", "E", "F", "G", "H",
     "I", "J", "K", "L", "M", "N", "O", "P", "Q", "R", "S", "T", "U", "V", "W", "X", "Y", "Z"}

\* [...]: one character of a set
Cls(chars) == [re |-> "cls", chars |-> chars]

\* . : any one character (the model's texts hold no newline)
AnyChar == [re |-> "any"]

\* a literal word
Lit(word) == [re |-> "seq", parts |-> [i \in DOMAIN word |-> Cls({word[i]})]]

\* r1 r2 ... : one part after the other
Cat(parts) == [re |-> "seq", parts |-> parts]

\* r{lo,hi}; hi = -1 stands for no upper limit
Rep(r, lo, hi) == [re |-> "rep", of |-> r, lo |-> lo, hi |-> hi]

RECURSIVE MatchEnds(_, _, _)
MatchEnds(r, text, i) ==
    CASE r.re = "cls" -> IF i <= Len(text) /\ text[i] \in r.chars THEN {i + 1} ELSE {}
      [] r.re = "any" -> IF i <= Len(text) THEN {i + 1} ELSE {}
      [] r.re = "seq" ->
            LET RECURSIVE go(_, _)
                go(k, S) == IF k > Len(r.parts) \/ S = {} THEN S
                            ELSE go(k + 1, UNION {MatchEnds(r.parts[k], text, p) : p \in S})
            IN go(1, {i})
      [] r.re = "rep" /\ r.of.re \in {"cls", "any"} ->
            \* a repeated single character: every end from lo to hi
            \* characters on that only such characters lie before
            {e \in (i + r.lo)..(IF r.hi = 0 - 1 \/ i + r.hi > Len(text) + 1
                                THEN Len(text) + 1 ELSE i + r.hi) :
                \A j \in i..(e - 1) : r.of.re = "any" \/ text[j] \in r.of.chars}
      [] r.re = "rep" ->
            LET RECURSIVE it(_, _)
                it(k, S) == LET here == IF k >= r.lo THEN S ELSE {}
                            IN IF S = {} \/ k = r.hi \/ k > Len(text) THEN here
                               ELSE here \cup it(k + 1, UNION {MatchEnds(r.of, text, p) : p \in S})
            IN it(0, {i})

\* a pattern: its source text, whether it begins with ^, its body, and
\* whether it ends with $
Pattern(source, caret, body, dollar) ==
    [source |-> source, caret |-> caret, body |-> body, dollar |-> dollar]

\* does a match of pattern p start at position i of text
MatchesAt(p, text, i) ==
    \E e \in MatchEnds(p.body, text, i) : p.dollar => e = Len(text) + 1

\* re.match(p, text): a match at the start of text
ReMatch(p, text) == MatchesAt(p, text, 1)

\* re.search(p, text): a match anywhere, at the start only under ^
ReSearch(p, text) ==
    \E i \in (IF p.caret THEN {1} ELSE 1..(Len(text) + 1)) : MatchesAt(p, text, i)

\* \d, [/.-], \s+ and the digit groups that the patterns share
Digit == Cls(DigitSet)

DateSep == Cls({"/", ".", "-"})

Spaces == Rep(Cls({" ", "\t"}), 1, 0 - 1)

Sign == Rep(Cls({"+", "-"}), 0, 1)

\* (sep \d{n})*
Groups(sep, n) == Rep(Cat(<<Cls({sep}), Rep(Digit, n, n)>>), 0, 0 - 1)

\* (sep \d+), optional or not
Fraction(sep, optional) ==
    Rep(Cat(<<Cls({sep}), Rep(Digit, 1, 0 - 1)>>), IF optional THEN 0 ELSE 1, 1)

CurrencySigns == {"$", "€", "£", "¥", "₹"}

\* self.date_patterns (lines 20-32)
date_patterns ==
    <<Pattern("^\\d{1,2}[/.-]\\d{1,2}[/.-]\\d{2,4}$", TRUE,
              Cat(<<Rep(Digit, 1, 2), DateSep, Rep(Digit, 1, 2), DateSep, Rep(Digit, 2, 4)>>), TRUE),
      Pattern("^\\d{4}[/.-]\\d{1,2}[/.-]\\d{1,2}$", TRUE,
              Cat(<<Rep(Digit, 4, 4), DateSep, Rep(Digit, 1, 2), DateSep, Rep(Digit, 1, 2)>>), TRUE),
      Pattern("^\\d{1,2}[-]?[A-Za-z]{3}[-]?\\d{2,4}$", TRUE,
              Cat(<<Rep(Digit, 1, 2), Rep(Cls({"-"}), 0, 1), Rep(Cls(LetterSet), 3, 3),
                    Rep(Cls({"-"}), 0, 1), Rep(Digit, 2, 4)>>), TRUE),
      Pattern("^[A-Za-z]{3,9}\\s+\\d{4}$", TRUE,
              Cat(<<Rep(Cls(LetterSet), 3, 9), Spaces, Rep(Digit, 4, 4)>>), TRUE),
      Pattern("^Q[1-4]\\s+\\d{4}$", TRUE,
              Cat(<<Cls({"Q"}), Cls({"1", "2", "3", "4"}), Spaces, Rep(Digit, 4, 4)>>), TRUE),
      Pattern("^Quarter\\s+[1-4]\\s+\\d{4}$", TRUE,
              Cat(<<Lit(<<"Q", "u", "a", "r", "t", "e", "r">>), Spaces, Cls({"1", "2", "3", "4"}),
                    Spaces, Rep(Digit, 4, 4)>>), TRUE)>>

\* self.number_patterns (lines 35-50)
number_patterns ==
    <<Pattern("^[+-]?\\d{1,3}(,\\d{3})*(\\.\\d+)?$", TRUE,
              Cat(<<Sign, Rep(Digit, 1, 3), Groups(",", 3), Fraction(".", TRUE)>>), TRUE),
      Pattern("^\\(\\d{1,3}(,\\d{3})*(\\.\\d+)?\\)$", TRUE,
              Cat(<<Cls({"("}), Rep(Digit, 1, 3), Groups(",", 3), Fraction(".", TRUE),
                    Cls({")"})>>), TRUE),
      Pattern("^[+-]?\\d{1,3}(\\.\\d{3})*(,\\d+)?$", TRUE,
              Cat(<<Sign, Rep(Digit, 1, 3), Groups(".", 3), Fraction(",", TRUE)>>), TRUE),
      Pattern("^[+-]?\\d{1,2}(,\\d{2})*(,\\d{3})*(\\.\\d+)?$", TRUE,
              Cat(<<Sign, Rep(Digit, 1, 2), Groups(",", 2), Groups(",", 3),
                    Fraction(".", TRUE)>>), TRUE),
      Pattern("^\\d{1,3}(,\\d{3})*(\\.\\d+)?-$", TRUE,
              Cat(<<Rep(Digit, 1, 3), Groups(",", 3), Fraction(".", TRUE), Cls({"-"})>>), TRUE),
      Pattern("^[$€£¥₹]\\d{1,3}(,\\d{3})*(\\.\\d+)?$", TRUE,
              Cat(<<Cls(CurrencySigns), Rep(Digit, 1, 3), Groups(",", 3),
                    Fraction(".", TRUE)>>), TRUE),
      Pattern("^[+-]?\\d+(\\.\\d+)?[KMB]$", TRUE,
              Cat(<<Sign, Rep(Digit, 1, 0 - 1), Fraction(".", TRUE), Cls({"K", "M", "B"})>>), TRUE)>>

\* self.financial_string_patterns (lines 53-60), with the names that
\* classify_string_type zips them with (line 307)
financial_string_patterns ==
    <<[name |-> "account_number",
       pattern |-> Pattern("^\\d{4,}$", TRUE, Rep(Digit, 4, 0 - 1), TRUE)],
      [name |-> "reference_code",
       pattern |-> Pattern("^[A-Za-z0-9]{5,}$", TRUE,
                           Rep(Cls(LetterSet \cup DigitSet), 5, 0 - 1), TRUE)],
      [name |-> "transaction_id",
       pattern |-> Pattern("^[A-Za-z]{2,}\\d{4,}$", TRUE,
                           Cat(<<Rep(Cls(LetterSet), 2, 0 - 1), Rep(Digit, 4, 0 - 1)>>), TRUE)]>>

----------------------------------------------------------------------------
(* Series, confidences and results *)

\* a cell of a datetime64 column
Timestamp(day) == [t |-> "ts", n |-> day, s |-> <<>>]

\* the dtype pandas gives a Series built from cells: datetime64 for
\* timestamps (with or without NaT), object as soon as a text is among
\* them, a numeric dtype otherwise
SeriesDtype(cells) ==
    IF \E i \in DOMAIN cells : cells[i].t = "ts" THEN "datetime64" ELSE DtypeOf(cells)

\* pd.Series(cells)
Series(cells) == [dtype |-> SeriesDtype(cells), values |-> cells]

\* data.dropna(), had it kept every cell
DropNaKeepsAll(data) == data

\* data.dropna(): the dtype stays
SeriesDropNa(data) ==
    [dtype |-> data.dtype,
     values |-> SelectSeq(data.values, LAMBDA v : v.t # "nan")]

\* sample_values.astype(str)
AsStrings(series) ==
    [i \in DOMAIN series.values |-> RenderStr(series.dtype, series.values[i])]

\* pd.api.types.is_numeric_dtype
IsNumericDtype(dtype) == dtype \in {"int64", "float64"}

\* a confidence: the fraction n / d in lowest terms.  The code computes
\* it in binary floating point; the two agree on every comparison below
\* for the lengths of the model.
Ratio(n, d) ==
    LET RECURSIVE gcd(_, _)
        gcd(a, b) == IF b = 0 THEN a ELSE gcd(b, a % b)
        g == gcd(n, d)
    IN [num |-> n \div g, den |-> d \div g]

\* r > n / d
Exceeds(r, n, d) == r.num * d > n * r.den

\* r < n / d
Below(r, n, d) == r.num * d < n * r.den

\* a format label; a format of None is the value None
Label(text) == [t |-> "label", s |-> text]

\* the dictionary the detection functions return
TypeResult(type, confidence, format) ==
    [type |-> type, confidence |-> confidence, format |-> format]

\* the loops of lines 145-149 and 223-227: the first pattern with the most
\* matches, when there is a match at all
FirstWithMost(patterns, counts) ==
    LET first == CHOOSE k \in DOMAIN patterns :
                    /\ \A j \in DOMAIN patterns : counts[j] <= counts[k]
                    /\ \A j \in 1..(k - 1) : counts[j] < counts[k]
    IN [pattern_matches |-> counts[first],
        matched_pattern |-> IF counts[first] = 0 THEN None
                            ELSE Label(patterns[first].source)]

\* pattern_count of every pattern (lines 146 and 224), then the loop
BestPattern(patterns, texts) ==
    FirstWithMost(patterns,
                  [k \in DOMAIN patterns |->
                      Cardinality({i \in DOMAIN texts : ReMatch(patterns[k], texts[i])})])

\* lines 151-163 and 229-241: the best pattern is the result when it
\* matches more than half of the n values
PatternResult(type, best, n) ==
    IF Exceeds(Ratio(best.pattern_matches, n), 5, 10)
    THEN TypeResult(type, Ratio(best.pattern_matches, n), best.matched_pattern)
    ELSE TypeResult(type, Ratio(0, 1), None)

----------------------------------------------------------------------------
(* detect_date_format (lines 100-163) *)

\* a text YYYY-MM-DD that names a day of the calendar within the range of
\* datetime64[ns]
IsIsoDate(text) ==
    /\ Len(text) = 10
    /\ text[5] = "-" /\ text[8] = "-"
    /\ \A i \in {1, 2, 3, 4, 6, 7, 9, 10} : IsDigit(text[i])
    /\ LET y == ParseDigits(SubSeq(text, 1, 4))
           m == ParseDigits(SubSeq(text, 6, 7))
           d == ParseDigits(SubSeq(text, 9, 10))
       IN /\ y \in 1678..2261
          /\ m \in 1..12
          /\ d >= 1 /\ d <= DaysInMonth(y, m)

\* does pd.to_datetime(sample_values, errors='raise') return: numbers are
\* taken as nanoseconds since 1970 and a missing value becomes NaT; among
\* the texts of the model the ISO dates parse, and a text with a letter, a
\* currency sign or the month 99 does not
PdToDatetimeOk(series) ==
    \/ IsNumericDtype(series.dtype)
    \/ /\ series.dtype = "object"
       /\ \A i \in DOMAIN series.values :
             \/ series.values[i].t = "nan"
             \/ series.values[i].t = "str" /\ IsIsoDate(series.values[i].s)

DetectDateFormat(sample_values) ==
    LET cells == sample_values.values
        excel_date_count == Cardinality({i \in DOMAIN cells :
                                            /\ cells[i].t = "num"
                                            /\ cells[i].n >= 36500 /\ cells[i].n <= 50000})
    IN IF sample_values.dtype = "datetime64"
       THEN TypeResult("date", Ratio(1, 1), Label("datetime64"))
       ELSE IF PdToDatetimeOk(sample_values)
       THEN TypeResult("date", Ratio(9, 10), Label("auto-detected"))
       ELSE IF /\ IsNumericDtype(sample_values.dtype)
               /\ Exceeds(Ratio(excel_date_count, Len(cells)), 8, 10)
       THEN TypeResult("date", Ratio(8, 10), Label("excel_serial"))
       ELSE IF sample_values.dtype = "object"
       THEN PatternResult("date", BestPattern(date_patterns, AsStrings(sample_values)),
                          Len(cells))
       ELSE TypeResult("date", Ratio(0, 1), None)

----------------------------------------------------------------------------
(* detect_number_format (lines 165-241) *)

\* line 191: str.replace(r'\((.+)\)', r'-\1'): from the first "(" that has
\* a ")" two or more places on, up to the last ")"
ReplaceParentheses(text) ==
    LET opens == {i \in DOMAIN text :
                     text[i] = "(" /\ \E j \in (i + 2)..Len(text) : text[j] = ")"}
        i == CHOOSE a \in opens : \A b \in opens : a <= b
        closes == {j \in (i + 2)..Len(text) : text[j] = ")"}
        j == CHOOSE a \in closes : \A b \in closes : a >= b
    IN IF opens = {} THEN text
       ELSE SubSeq(text, 1, i - 1) \o <<"-">> \o SubSeq(text, i + 1, j - 1)
                \o SubSeq(text, j + 1, Len(text))

\* line 192: str.replace(r'(\d+)-$', r'-\1')
MoveTrailingMinus(text) ==
    LET n == Len(text)
        starts == {a \in 1..(n - 1) : \A k \in a..(n - 1) : IsDigit(text[k])}
        a == CHOOSE x \in starts : \A y \in starts : x <= y
    IN IF n >= 2 /\ text[n] = "-" /\ starts # {}
       THEN SubSeq(text, 1, a - 1) \o <<"-">> \o SubSeq(text, a, n - 1)
       ELSE text

\* the text with its end from the leftmost of starts on, the last
\* character left out, replaced by str(float(...) * 10^power)
ExpandFrom(text, starts, power) ==
    LET a == CHOOSE x \in starts : \A y \in starts : x <= y
    IN IF starts = {} THEN text
       ELSE SubSeq(text, 1, a - 1)
               \o PyStr(Scale(PyFloat(SubSeq(text, a, Len(text) - 1)).v, power))

\* lines 195-197: str.replace(r'(\d+\.?\d*)K$', str(float(group) * 1000)),
\* for the letter and the power of ten given
ExpandAbbreviation(text, letter, power) ==
    LET n == Len(text)
        body == Cat(<<Rep(Digit, 1, 0 - 1), Rep(Cls({"."}), 0, 1), Rep(Digit, 0, 0 - 1)>>)
    IN IF n >= 2 /\ text[n] = letter
       THEN ExpandFrom(text, {a \in 1..(n - 1) : n \in MatchEnds(body, text, a)}, power)
       ELSE text

\* r'^\d{1,3}(\.\d{3})*(,\d+)$' (lines 200 and 282)
EuropeanPattern ==
    Pattern("^\\d{1,3}(\\.\\d{3})*(,\\d+)$", TRUE,
            Cat(<<Rep(Digit, 1, 3), Groups(".", 3), Fraction(",", FALSE)>>), TRUE)

\* lines 200-203: a text in the European format gets a decimal point
EuropeanToPoint(text) ==
    IF ReSearch(EuropeanPattern, text)
    THEN Replace(Replace(text, <<".">>, <<>>), <<",">>, <<".">>)
    ELSE text

\* lines 186-203 for one value
CleanNumberText(text) ==
    LET a == DropChars(text, CurrencySigns)
        b == DropChars(a, {","})
        c == ReplaceParentheses(b)
        d == MoveTrailingMinus(c)
        e == ExpandAbbreviation(d, "K", 3)
        f == ExpandAbbreviation(e, "M", 6)
        g == ExpandAbbreviation(f, "B", 9)
    IN EuropeanToPoint(g)

\* the patterns of _determine_number_format (lines 256-286)
FormatPatterns ==
    [sign |-> Pattern("^[$€£¥₹]", TRUE, Cls(CurrencySigns), FALSE),
     USD |-> Pattern("^\\$", TRUE, Cls({"$"}), FALSE),
     EUR |-> Pattern("^€", TRUE, Cls({"€"}), FALSE),
     GBP |-> Pattern("^£", TRUE, Cls({"£"}), FALSE),
     JPY |-> Pattern("^¥", TRUE, Cls({"¥"}), FALSE),
     INR |-> Pattern("^₹", TRUE, Cls({"₹"}), FALSE),
     accounting |-> Pattern("^\\(.+\\)$", TRUE,
                            Cat(<<Cls({"("}), Rep(AnyChar, 1, 0 - 1), Cls({")"})>>), TRUE),
     trailing_negative |-> Pattern("\\d+\\.?\\d*-$", FALSE,
                                   Cat(<<Rep(Digit, 1, 0 - 1), Rep(Cls({"."}), 0, 1),
                                         Rep(Digit, 0, 0 - 1), Cls({"-"})>>), TRUE),
     abbreviated |-> Pattern("[KMB]$", FALSE, Cls({"K", "M", "B"}), TRUE),
     european |-> EuropeanPattern,
     indian |-> Pattern("^\\d{1,2}(,\\d{2})*(,\\d{3})*(\\.\\d+)?$", TRUE,
                        Cat(<<Rep(Digit, 1, 2), Groups(",", 2), Groups(",", 3),
                              Fraction(".", TRUE)>>), TRUE)]

\* the tests of lines 256-288 on mean, the share of the values in which
\* each pattern is found
FormatOfMeans(mean) ==
    IF Exceeds(mean.sign, 0, 1)
    THEN (IF Exceeds(mean.USD, 5, 10) THEN "USD"
          ELSE IF Exceeds(mean.EUR, 5, 10) THEN "EUR"
          ELSE IF Exceeds(mean.GBP, 5, 10) THEN "GBP"
          ELSE IF Exceeds(mean.JPY, 5, 10) THEN "JPY"
          ELSE IF Exceeds(mean.INR, 5, 10) THEN "INR"
          ELSE "currency")
    ELSE IF Exceeds(mean.accounting, 2, 10) THEN "accounting"
    ELSE IF Exceeds(mean.trailing_negative, 2, 10) THEN "trailing_negative"
    ELSE IF Exceeds(mean.abbreviated, 2, 10) THEN "abbreviated"
    ELSE IF Exceeds(mean.european, 5, 10) THEN "european"
    ELSE IF Exceeds(mean.indian, 5, 10) THEN "indian"
    ELSE "standard"

\* _determine_number_format (lines 243-290)
DetermineNumberFormat(sample_str) ==
    FormatOfMeans([k \in DOMAIN FormatPatterns |->
                      Ratio(Cardinality({i \in DOMAIN sample_str :
                                            ReSearch(FormatPatterns[k], sample_str[i])}),
                            Len(sample_str))])

\* lines 206-235: converted of the cleaned values are numbers for
\* pd.to_numeric, the others are NaN
ConvertedResult(sample_str, converted) ==
    IF Exceeds(Ratio(converted, Len(sample_str)), 5, 10)
    THEN TypeResult("number", Ratio(converted, Len(sample_str)),
                    Label(DetermineNumberFormat(sample_str)))
    ELSE PatternResult("number", BestPattern(number_patterns, sample_str), Len(sample_str))

DetectNumberFormat(sample_values) ==
    IF IsNumericDtype(sample_values.dtype)
    THEN TypeResult("number", Ratio(1, 1), Label("numeric"))
    ELSE IF sample_values.dtype # "object"
    THEN TypeResult("number", Ratio(0, 1), None)
    ELSE ConvertedResult(
            AsStrings(sample_values),
            Cardinality({i \in DOMAIN sample_values.values :
                PyFloat(CleanNumberText(
                    RenderStr(sample_values.dtype, sample_values.values[i]))).ok}))

----------------------------------------------------------------------------
(* classify_string_type (lines 292-350) and analyze_column (lines 62-98) *)

\* lines 308-350: the first pattern with a rate above 0.7, then the
\* unique ratio, then the average length total_length / n
StringResult(rates, unique_ratio, total_length, n) ==
    LET hits == {k \in DOMAIN rates : Exceeds(rates[k], 7, 10)}
        first == CHOOSE k \in hits : \A j \in hits : k <= j
    IN IF hits # {}
       THEN TypeResult("string", rates[first], Label(financial_string_patterns[first].name))
       ELSE IF Below(unique_ratio, 1, 10)
       THEN TypeResult("string", Ratio(9, 10), Label("categorical"))
       ELSE IF total_length > 100 * n
       THEN TypeResult("string", Ratio(8, 10), Label("description"))
       ELSE IF total_length > 30 * n
       THEN TypeResult("string", Ratio(8, 10), Label("name_or_address"))
       ELSE TypeResult("string", Ratio(8, 10), Label("identifier"))

\* pattern_match_rate of every pattern, unique_ratio, and the sum of
\* sample_str.str.len() (one pair for each character)
ClassifyStringType(sample_values) ==
    StringResult(
        [k \in DOMAIN financial_string_patterns |->
            Ratio(Cardinality({i \in DOMAIN sample_values.values :
                     ReMatch(financial_string_patterns[k].pattern,
                             RenderStr(sample_values.dtype, sample_values.values[i]))}),
                  Len(sample_values.values))],
        Ratio(Cardinality(Range(sample_values.values)), Len(sample_values.values)),
        Cardinality(UNION {{i} \X (1..Len(RenderStr(sample_values.dtype,
                                                     sample_values.values[i]))) :
                              i \in DOMAIN sample_values.values}),
        Len(sample_values.values))

\* line 83: the most values that are examined
SampleCap == 100

\* the sequences that are q without d of its elements
RECURSIVE Without(_, _)
Without(q, d) ==
    IF d = 0 THEN {q}
    ELSE UNION {Without(SubSeq(q, 1, i - 1) \o SubSeq(q, i + 1, Len(q)), d - 1) :
                   i \in DOMAIN q}

\* line 84: what clean_data.sample(sample_size) can return, or clean_data
\* itself.  Series.sample draws at random without a seed; the order of the
\* draw is left out, no statistic of the detector depends on it.
Samples(clean_data) ==
    IF Len(clean_data.values) > SampleCap
    THEN {[dtype |-> clean_data.dtype, values |-> s] :
             s \in Without(clean_data.values, Len(clean_data.values) - SampleCap)}
    ELSE {clean_data}

\* lines 86-98, had the number been tried before the date
AcceptNumberFirst(date_result, number_result, sample_data) ==
    IF Exceeds(number_result.confidence, 7, 10) THEN number_result
    ELSE IF Exceeds(date_result.confidence, 7, 10) THEN date_result
    ELSE ClassifyStringType(sample_data)

\* lines 88-98: the first of the date and the number result with a
\* confidence above 0.7, else the string result
Accept(date_result, number_result, sample_data) ==
    IF Exceeds(date_result.confidence, 7, 10) THEN date_result
    ELSE IF Exceeds(number_result.confidence, 7, 10) THEN number_result
    ELSE ClassifyStringType(sample_data)

\* lines 86-98 on the sample
Decide(sample_data) ==
    Accept(DetectDateFormat(sample_data), DetectNumberFormat(sample_data), sample_data)

\* lines 75-80
Unknown == TypeResult("unknown", Ratio(0, 1), None)

----------------------------------------------------------------------------
(* The detector's operations and their inputs *)

\* a text of n times the character c
Repeat(c, n) == [i \in 1..n |-> c]

\* n cells v in a row
Run(v, n) == [i \in 1..n |-> v]

\* analyze_column(data) (lines 62-98); sample records the values that were
\* examined
analyze_column(data) ==
    /\ pc = "idle"
    /\ LET clean_data == SeriesDropNa(data)
       IN IF Len(clean_data.values) = 0
          THEN /\ call' = [op |-> "analyze_column", data |-> data, sample |-> clean_data]
               /\ result' = Unknown
          ELSE \E sample_data \in Samples(clean_data) :
                  /\ call' = [op |-> "analyze_column", data |-> data, sample |-> sample_data]
                  /\ result' = Decide(sample_data)
    /\ pc' = "returned"
    /\ UNCHANGED <<mem, sql, fil, src, stored>>

detect_date_format(sample_values) ==
    /\ pc = "idle"
    /\ call' = [op |-> "detect_date_format", sample |-> sample_values]
    /\ result' = DetectDateFormat(sample_values)
    /\ pc' = "returned"
    /\ UNCHANGED <<mem, sql, fil, src, stored>>

detect_number_format(sample_values) ==
    /\ pc = "idle"
    /\ call' = [op |-> "detect_number_format", sample |-> sample_values]
    /\ result' = DetectNumberFormat(sample_values)
    /\ pc' = "returned"
    /\ UNCHANGED <<mem, sql, fil, src, stored>>

classify_string_type(sample_values) ==
    /\ pc = "idle"
    /\ call' = [op |-> "classify_string_type", sample |-> sample_values]
    /\ result' = ClassifyStringType(sample_values)
    /\ pc' = "returned"
    /\ UNCHANGED <<mem, sql, fil, src, stored>>

\* the longest column that is enumerated cell by cell
MaxColumn == 3

\* the cells of the enumerated columns: a date, a date-like text of no
\* calendar, amounts with a currency sign and a multiplier, a code, two
\* words, a missing value.  Numbers come in columns of their own below: a
\* column that mixes numbers and texts is not among the inputs.
CellsD ==
    {Str(<<"2", "0", "2", "3", "-", "1", "2", "-", "3", "1">>),
     Str(<<"9", "9", "/", "9", "9", "/", "9", "9", "9", "9">>),
     Str(<<"$", "1", "2">>),
     Str(<<"$", "1", "2", "K">>),
     Str(<<"a", "b", "c", "d", "e">>),
     Str(<<"x", " ", "y">>),
     NaN}

\* a name of 101 letters, and a sentence of 40 characters
LongName == Str(Repeat("a", 101))
Sentence == Str(<<"x", " ">> \o Repeat("y", 38))

\* columns of one or two runs: numbers, timestamps, codes among which one
\* value in four is something else, long texts, and columns of more than a
\* hundred values
RunColumns ==
    {<<Num(7), Num(45000)>>,
     Run(Str(<<"a", "b", "c", "d", "e">>), 3) \o Run(Str(<<"x", " ", "y">>), 1),
     Run(Str(<<"$", "1", "2">>), 3) \o Run(Str(<<"x", " ", "y">>), 1),
     <<Num(7), NaN>>,
     Run(Timestamp(19722), 2),
     <<Timestamp(19722), NaN>>,
     Run(LongName, 2),
     <<LongName, Sentence>>,
     Run(Sentence, 3),
     Run(Str(<<"a", "b", "c", "d", "e">>), 71) \o Run(Str(<<"x", " ", "y">>), 30),
     Run(Str(<<"a", "b", "c", "d", "e">>), 101),
     Run(Num(7), 60) \o Run(NaN, 40),
     Run(Num(7), 101)}

ColumnsD ==
    {Series(cells) : cells \in UNION {[1..n -> CellsD] : n \in 0..MaxColumn} \cup RunColumns}

\* the samples the three detection functions are called with directly:
\* columns without a missing value
SamplesD ==
    {s \in ColumnsD : Len(s.values) \in 1..SampleCap
                        /\ \A i \in DOMAIN s.values : s.values[i].t # "nan"}

InitD == Fresh /\ pc = "idle"

NextD ==
    \/ pc = "idle" /\ \E data \in ColumnsD : analyze_column(data)
    \/ pc = "idle" /\ \E s \in SamplesD : detect_date_format(s)
    \/ pc = "idle" /\ \E s \in SamplesD : detect_number_format(s)
    \/ pc = "idle" /\ \E s \in SamplesD : classify_string_type(s)
    \/ Return

SpecD == InitD /\ [][NextD]_vars

----------------------------------------------------------------------------
(* Properties of DataTypeDetector *)

\* every cell of the column is a missing value (so of a column of no cells)
AllMissing(data) == \A i \in DOMAIN data.values : data.values[i].t = "nan"

\* C22: analyze_column returns {type unknown, confidence 0.0, format None}
\* for every column of zero length and every column that holds only missing
\* values.
C22_EmptyIsUnknown ==
    Returned("analyze_column") /\ AllMissing(call.data)
        => /\ result.type = "unknown"
           /\ result.confidence = Ratio(0, 1)
           /\ result.format = None

\* a column of one or more cells, all missing, was analysed
C22_Witness ==
    /\ Returned("analyze_column")
    /\ Len(call.data.values) > 0 /\ AllMissing(call.data)
    /\ result = Unknown

\* C23: on a column with a non-missing value analyze_column returns the
\* date result exactly when the date confidence of the sample exceeds 0.7,
\* otherwise the number result exactly when the number confidence exceeds
\* 0.7, otherwise the string result; a date or number result it returns
\* has a confidence above 0.7.
C23_FirstAboveThreshold ==
    Returned("analyze_column") /\ ~AllMissing(call.data)
        => LET date_result == DetectDateFormat(call.sample)
               number_result == DetectNumberFormat(call.sample)
               string_result == ClassifyStringType(call.sample)
               date_ok == Exceeds(date_result.confidence, 7, 10)
               number_ok == Exceeds(number_result.confidence, 7, 10)
           IN /\ date_ok => result = date_result
              /\ ~date_ok /\ number_ok => result = number_result
              /\ ~date_ok /\ ~number_ok => result = string_result
              /\ result.type = "date" <=> date_ok
              /\ result.type = "number" <=> ~date_ok /\ number_ok
              /\ result.type \in {"date", "number"} => Exceeds(result.confidence, 7, 10)

\* the string result was returned for a sample whose date result has a
\* confidence above 0.5 and not above 0.7
C23_Witness ==
    /\ Returned("analyze_column")
    /\ result.type = "string"
    /\ Exceeds(DetectDateFormat(call.sample).confidence, 5, 10)
    /\ ~Exceeds(DetectDateFormat(call.sample).confidence, 7, 10)

\* C24: classify_string_type returns, for every sample of one or more
\* values, a result of type string with a confidence of 0.8 or more,
\* whichever branch produces it.
C24_StringConfidence ==
    Returned("classify_string_type") /\ Len(call.sample.values) > 0
        => /\ result.type = "string"
           /\ ~Below(result.confidence, 8, 10)

\* a text of letters only
IsAlphabetic(text) == \A i \in DOMAIN text : text[i] \in LetterSet

\* C25: a column whose values are all purely alphabetic names of more than
\* 100 characters is classified by analyze_column as string with the
\* format "description".
C25_LongNamesAreDescriptions ==
    /\ Returned("analyze_column")
    /\ Len(call.data.values) > 0
    /\ \A i \in DOMAIN call.data.values :
          /\ call.data.values[i].t = "str"
          /\ Len(call.data.values[i].s) > 100
          /\ IsAlphabetic(call.data.values[i].s)
    => result.type = "string" /\ result.format = Label("description")

\* C29: analyze_column is deterministic: every sample the call could have
\* drawn from the column gives the result the call returned, so two calls
\* on one column agree on type, confidence and format.
C29_Deterministic ==
    Returned("analyze_column") /\ ~AllMissing(call.data)
        => \A sample_data \in Samples(SeriesDropNa(call.data)) :
              Decide(sample_data) = result

=============================================================================
